---------------------------- MODULE Spec2Model ----------------------------
(***************************************************************************)
(* obj2voxel: the multi-worker voxelization pipeline                       *)
(* (src/src/filevoxelization.cpp) and its threading primitives             *)
(* (src/src/threading.hpp).                                                *)
(*                                                                         *)
(* Threads: one driver (the caller of voxelize) and threadCount workers.   *)
(* Every critical section of threading.hpp runs under one std::mutex and   *)
(* blocks only in condition_variable::wait, which releases the mutex, so   *)
(* each critical section is one atomic action.  A wait whose predicate is  *)
(* false puts the thread in the wait set of the condition variable; it     *)
(* stays there until a notify (or a wakeup without notification) takes it  *)
(* out, and then it evaluates the predicate again.                         *)
(***************************************************************************)
EXTENDS Integers, Sequences, FiniteSets, TLC

(***************************************************************************)
(* Program constants                                                       *)
(***************************************************************************)
\* async::RingBuffer<WorkerCommand, 128> buffer
QueueCapacity == 128

\* usize and uintmax_t are 64 bit wide and wrap modulo 2^64.  A value is held
\* as its two's complement representative: -1 is 2^64 - 1, the value a decrement
\* at 0 leaves.  The bounds of the model keep every value far below 2^63, and
\* the program compares these values with == and != only.
UWrap(x) == x

(***************************************************************************)
(* Bounds of the model                                                     *)
(***************************************************************************)
\* std::thread::hardware_concurrency() ranges over 0..MaxThreads
MaxThreads == 3

\* the triangle streams of Spec hold at most MaxTriangles triangles
MaxTriangles == 3

\* the long stream of SpecLong holds QueueCapacity + LongExtra triangles
LongExtra == 2

\* SpecLong runs 1..MaxLongThreads workers
MaxLongThreads == 1

\* SpecMerge enters the merge phase with 1..MaxMergeThreads workers
MaxMergeThreads == 4

\* SpecRing: RingBuffer<T, N> is instantiated with N = RingN
RingN == 3

\* SpecRing: at most MaxRingOps values are pushed, drawn from 1..RingVals
MaxRingOps == 7

RingVals == 2

\* SpecArgs: the values tried for args.resolution, the number of hardware threads
\* and the length of the stream
MaxResolution == 1

MaxArgsThreads == 2

MaxArgsTriangles == 2

\* SpecSplit: the planes tried, and how far (in units of EPSILON / 2) a vertex
\* that is clearly off the plane lies from it
MaxPlane == 1

FarOffset == 8

\* SpecEvent: the threads that share the Event, and the calls of trigger()
\* counted
MaxEventThreads == 3

MaxTriggers == 2

\* SpecClip: the cells a call may be for (0..MaxCell along each axis), and
\* the cells visited for one sub-triangle
MaxCell == 1

MaxClipCells == 2

(***************************************************************************)
(* Voxel maps and weighted colors                                          *)
(*                                                                         *)
(* A VoxelMap<WeightedColor> is a function from a finite set of cell       *)
(* positions to WeightedColor records.  A cell position (Vec3u) is         *)
(* a triple of naturals.  A color value is an exact rational <<num, den>>  *)
(* in lowest terms (one channel stands for the Vec3f).                     *)
(***************************************************************************)
RECURSIVE Gcd(_, _)
Gcd(a, b) == IF b = 0 THEN a ELSE Gcd(b, a % b)

Reduce(n, d) == LET g == Gcd(n, d) IN IF g = 0 THEN <<0, 1>> ELSE <<n \div g, d \div g>>

WeightedColor(w, c) == [weight |-> w, value |-> Reduce(c, 1)]

EmptyMap == <<>>

Positions(m) == DOMAIN m

MapEmpty(m) == DOMAIN m = {}

MapSize(m) == Cardinality(DOMAIN m)

\* BLEND, the weighted average: w' = w1 + w2, v' = (w1*v1 + w2*v2) / w'.
\* Weights are counted in a unit small enough to make them naturals, colors
\* are rationals; both are computed exactly.
Blend(a, b) ==
    LET w == a.weight + b.weight
        n == a.weight * a.value[1] * b.value[2] + b.weight * b.value[1] * a.value[2]
        d == w * a.value[2] * b.value[2]
    IN  [weight |-> w, value |-> Reduce(n, d)]

\* MAX: the strictly greater weight wins, the incumbent a wins a tie
Max(a, b) == IF b.weight > a.weight THEN b ELSE a

Combine(strategy, a, b) == IF strategy = "MAX" THEN Max(a, b) ELSE Blend(a, b)

\* the map a Voxelizer::merge leaves in target: every (pos, color) of source
\* combined into target under the strategy
MergedTarget(strategy, target, source) ==
    [p \in DOMAIN target \cup DOMAIN source |->
        IF p \in DOMAIN target /\ p \in DOMAIN source
        THEN Combine(strategy, target[p], source[p])
        ELSE IF p \in DOMAIN target THEN target[p] ELSE source[p]]

\* Voxelizer::voxelize(triangle): the triangle's non-zero contributions are
\* folded into the worker's own map.  A triangle is given by the weighted
\* color it contributes to each cell it covers.
VoxelizeInto(strategy, voxels, triangle) == MergedTarget(strategy, voxels, triangle)

(***************************************************************************)
(* Inputs: the triangles a stream may hold                                 *)
(***************************************************************************)
Cell1 == <<0, 0, 0>>
Cell2 == <<1, 0, 0>>

\* covers one cell, weight 1, color 1
TriA == (Cell1 :> WeightedColor(1, 1))
\* covers two cells, weight 2 in each, color 2
TriB == (Cell1 :> WeightedColor(2, 2)) @@ (Cell2 :> WeightedColor(2, 2))

\* covers one cell, weight 1 like TriA, another color
TriC == (Cell1 :> WeightedColor(1, 3))
\* covers one cell with a greater weight than TriA and TriC, and another color
TriBig == (Cell1 :> WeightedColor(3, 2))

\* covers one cell, which no other triangle covers
Cell3 == <<0, 1, 0>>

TriD == (Cell3 :> WeightedColor(2, 3))

\* the streams of at most n triangles in which TriA and TriB alternate
Alternating(first, n) ==
    [k \in 1..n |-> IF (k % 2 = 1) = first THEN TriA ELSE TriB]

Streams(n) == {Alternating(first, k) : first \in BOOLEAN, k \in 0..n}

(***************************************************************************)
(* RingBuffer<T, N> (threading.hpp:18-78)                                  *)
(***************************************************************************)
\* T content[N]; usize r = 0, w = 0, avail = 0; T is default-constructed
RingBufferNew(n, dflt) == [content |-> [i \in 0..(n - 1) |-> dflt], r |-> 0, w |-> 0, avail |-> 0]

RB_empty(b) == b.avail = 0

RB_full(b, n) == b.avail = n

RB_size(b) == b.avail

\* the slot is read before r is advanced
RB_popValueStale(b, n) == b.content[b.r]

\* --avail; r = (r + 1) % N; return content[r]
RB_popValue(b, n) == b.content[(b.r + 1) % n]

RB_pop(b, n) == [b EXCEPT !.avail = UWrap(b.avail - 1), !.r = (b.r + 1) % n]

\* ++avail; w = (w + 1) % N; content[w] = value
RB_push(b, n, value) ==
    [b EXCEPT !.avail = UWrap(b.avail + 1),
              !.w = (b.w + 1) % n,
              !.content[(b.w + 1) % n] = value]

\* r = w = avail = 0
RB_clear(b) == [b EXCEPT !.r = 0, !.w = 0, !.avail = 0]

\* return content[r]
RB_peek(b) == b.content[b.r]

\* VXIO_DEBUG_ASSERT_NE(avail, 0) / VXIO_DEBUG_ASSERT_NE(avail, N)
RB_popAssert(b) == b.avail # 0

RB_peekAssert(b) == b.avail # 0

RB_pushAssert(b, n) == b.avail # n

\* the elements held, least recently pushed first
RB_elements(b, n) == [k \in 1..b.avail |-> b.content[(b.r + k) % n]]


(***************************************************************************)
(* WorkerCommand (filevoxelization.cpp:15-54)                              *)
(*                                                                         *)
(* A map pointer is the index of the worker owning the map, 0 is nullptr.  *)
(* id is the position of the command in the order of issue (0: a command   *)
(* that was never issued); the program does not read it.                   *)
(***************************************************************************)
\* constexpr WorkerCommand() : type{EXIT}, nothing{nullptr}
ExitCommand == [type |-> "EXIT", triangle |-> EmptyMap, target |-> 0, source |-> 0, id |-> 0]

VoxelizeCommand(tri) ==
    [type |-> "VOXELIZE_TRIANGLE", triangle |-> tri, target |-> 0, source |-> 0, id |-> 0]

MergeCommand(target, source) ==
    [type |-> "MERGE_MAPS", triangle |-> EmptyMap, target |-> target, source |-> source, id |-> 0]

VARIABLES
    \* inputs of voxelize(args, stream, sink)
    vertexCount,     \* stream.vertexCount()
    threadCount,     \* std::thread::hardware_concurrency()
    stream,          \* the triangles stream.next() yields, in order
    colorStrategy,   \* args.colorStrategy
    resolution,      \* args.resolution
    permutation,     \* args.permutation
    \* the driver thread
    dpc,             \* its position in voxelize / mergeVoxelMaps / joinWorkers
    nextTri,         \* triangles taken from the stream so far
    dcmd,            \* the command inside CommandQueue::issue (the default command
                     \* outside of issue, where the program holds none)
    dret,            \* where issue returns to
    idx,             \* loop index (spawn, merge scan, join loops)
    mergeTarget,
    mergeSource,
    commandsIssued,
    result,          \* the map mergeVoxelMaps returns
    \* CommandQueue
    rb,              \* RingBuffer<WorkerCommand, 128>
    count,           \* async::Counter<uintmax_t>::count
    readWait,        \* workers blocked in readCon.wait
    writeWait,       \* the driver is blocked in writeCon.wait
    countWait,       \* the driver is blocked in Counter::condition.wait
    \* the workers 1..threadCount
    wpc,
    wcmd,            \* the command a worker received (the default command between
                     \* complete() and the next receive(), where the local is dead)
    looping,
    voxels,          \* Voxelizer::voxels_ of each worker
    \* history, not read by the program
    log,             \* per issued command: times received, executed, completed
    failed,          \* the assertions that have failed so far
    mergeStart,      \* the workers' maps when the merge phase began
    passMaps,        \* the maps named by the commands issued in the current merge pass
    exits,           \* per worker: the EXIT commands it has received
    \* the VoxelSink and the end of voxelize
    pending,         \* the cells of result the output loop has not visited yet
    sinkCanWrite,    \* what sink.canWrite() returns
    written,         \* the voxels passed to sink.write, in order
    flushes,         \* calls of sink.flush()
    returned,        \* the value voxelize returned ("none" before it returns)
    \* a RingBuffer<int, RingN> driven directly (SpecRing)
    ring,
    ringPushed,
    ringPopped,
    ringPeeked,      \* what peek() returned, if it was called in this state
    \* a call of splitTriangle on its own (SpecSplit)
    splitPc,         \* "idle", "ready" (before the call) or "done" (after it)
    splitMode,       \* the DiscardMode of the call
    splitIn,         \* the arguments: axis, plane, t, the vectors passed as outLo and outHi
    splitOut,        \* the vectors after the call, and the push_backs made
    \* an async::Event shared by the threads EventThreads (SpecEvent)
    evFlag,          \* Event::flag
    evPc,            \* per thread: "idle", "waiting" (in condition.wait), "notified"
                     \* (woken by notify_all), "woken" (woken without a notification)
    evWaits,         \* per thread: how its last wait() went
    evTriggers,      \* calls of trigger() since construction or the last reset()
    \* a call of voxelizeVoxel from voxelizeSubTriangle (SpecClip)
    clipPc,          \* "idle", "call", "cut", "fold", "insert", "done"
    clipIn,          \* inputTriangle.area(), subTriangle, pos
    clipBuffers,     \* the two caller-owned vectors and which one preSplitBuffer points to
    clipCut,         \* the cuts made so far: 3 * hi + axis of the next one
    clipCuts,        \* the calls of the splitting function: mode, axis, plane
    clipResult,      \* the WeightedColor returned: its weight, the points its colour was
                     \* sampled at, and the fragments it was folded from
    clipOut,         \* the insertions into out: cell and weight, and how the call went
    \* a call of subdivideLargeVolumeTriangles (SpecSub)
    subPc,           \* "idle", "call", "loop", "done"
    subIn,           \* inputTriangle
    subOut,          \* the vector out
    subI,            \* the loop index i
    subSteps,        \* the subdivisions made
    \* a call of main_impl (SpecMain)
    mainPc,          \* "idle", "entry", "voxelize", "convert", "loop", "converted", "returned",
                     \* "exited" (std::exit(1)), "asserted" (an assertion failed)
    mainArgs,        \* what the checks make of the four arguments, and the size of the mesh
    mainReturn,      \* the value main_impl returned, -1 before it returns
    voxelized,       \* voxelize_obj was called
    weightedVoxels,  \* the map: its number of voxels; a voxel is its rank in key order
    cvNext,          \* the rank of the voxel the range-for takes next
    voxelIndex,      \* usize voxelIndex
    voxelCount,      \* usize voxelCount
    voxelBuffer,     \* VOXEL_BUFFER_32
    handed,          \* the voxels handed to writer->write, in order
    flushLog,        \* the calls of flushBuffer: voxelIndex, where, and the result
    convertReturn    \* the value convert_map_voxelio returned, -1 before it returns

inputVars == <<vertexCount, threadCount, stream, colorStrategy, resolution, permutation>>

driverVars == <<dpc, nextTri, dcmd, dret, idx, mergeTarget, mergeSource, commandsIssued, result>>

queueVars == <<rb, count, readWait, writeWait, countWait>>

workerVars == <<wpc, wcmd, looping, voxels>>

historyVars == <<log, failed, mergeStart, passMaps, exits>>

sinkVars == <<pending, sinkCanWrite, written, flushes, returned>>

ringVars == <<ring, ringPushed, ringPopped, ringPeeked>>

splitVars == <<splitPc, splitMode, splitIn, splitOut>>

eventVars == <<evFlag, evPc, evWaits, evTriggers>>

clipVars == <<clipPc, clipIn, clipBuffers, clipCut, clipCuts, clipResult, clipOut>>

subVars == <<subPc, subIn, subOut, subI, subSteps>>

mainVars == <<mainPc, mainArgs, mainReturn, voxelized, weightedVoxels, cvNext, voxelIndex,
              voxelCount, voxelBuffer, handed, flushLog, convertReturn>>

vars == <<inputVars, driverVars, queueVars, workerVars, historyVars, sinkVars, ringVars,
          splitVars, eventVars, clipVars, subVars, mainVars>>

Workers == 1..threadCount

(***************************************************************************)
(* Initial states                                                          *)
(***************************************************************************)
\* the state after voxelize has been called, before its first statement
InitPipeline ==
    /\ dpc = "start"
    /\ nextTri = 0
    /\ dcmd = ExitCommand
    /\ dret = "start"
    /\ idx = 0
    /\ mergeTarget = 0
    /\ mergeSource = 0
    /\ commandsIssued = 0
    /\ result = EmptyMap
    /\ rb = RingBufferNew(QueueCapacity, ExitCommand)
    /\ count = 0
    /\ readWait = {}
    /\ writeWait = FALSE
    /\ countWait = FALSE
    /\ wpc = [i \in Workers |-> "unborn"]
    /\ wcmd = [i \in Workers |-> ExitCommand]
    /\ looping = [i \in Workers |-> TRUE]
    /\ voxels = [i \in Workers |-> EmptyMap]
    /\ log = <<>>
    /\ failed = {}
    /\ mergeStart = [i \in Workers |-> EmptyMap]
    /\ passMaps = {}
    /\ exits = [i \in Workers |-> 0]

\* a configuration the caller has validated
ValidArgs == resolution = 2 /\ permutation = <<0, 1, 2>>

\* no call of splitTriangle is observed
InitSplitIdle ==
    /\ splitPc = "idle"
    /\ splitMode = "NONE"
    /\ splitIn = <<>>
    /\ splitOut = <<>>

\* the threads that share the Event
EventThreads == 1..MaxEventThreads

\* Event(bool triggered = false), no thread in wait()
\* no Event is in use
InitEventIdle ==
    /\ evFlag = FALSE
    /\ evPc = [t \in EventThreads |-> "idle"]
    /\ evWaits = [t \in EventThreads |-> "none"]
    /\ evTriggers = 0

\* explicit Event(bool triggered = false) : flag{triggered}
InitEvent ==
    /\ evFlag \in BOOLEAN
    /\ evPc = [t \in EventThreads |-> "idle"]
    /\ evWaits = [t \in EventThreads |-> "none"]
    /\ evTriggers = 0

\* no call of voxelizeVoxel is observed
InitClipIdle ==
    /\ clipPc = "idle"
    /\ clipIn = <<>>
    /\ clipBuffers = <<>>
    /\ clipCut = 0
    /\ clipCuts = <<>>
    /\ clipResult = <<>>
    /\ clipOut = <<>>

\* no call of subdivideLargeVolumeTriangles is observed
InitSubIdle ==
    /\ subPc = "idle"
    /\ subIn = <<>>
    /\ subOut = <<>>
    /\ subI = 0
    /\ subSteps = 0

\* nothing but the pipeline is observed
\* main_impl is not called
InitMainIdle ==
    /\ mainPc = "idle"
    /\ mainArgs = [inFileEmpty |-> TRUE, outType |-> "none", openOk |-> FALSE,
                   resolutionOk |-> FALSE, colorStratStr |-> "", meshLoads |-> FALSE,
                   voxels |-> 0]
    /\ mainReturn = -1
    /\ voxelized = FALSE
    /\ weightedVoxels = 0
    /\ cvNext = 0
    /\ voxelIndex = 0
    /\ voxelCount = 0
    /\ voxelBuffer = <<>>
    /\ handed = <<>>
    /\ flushLog = <<>>
    /\ convertReturn = -1

InitOthersIdle == InitEventIdle /\ InitClipIdle /\ InitSubIdle /\ InitMainIdle

InitRingIdle ==
    /\ pending = {}
    /\ sinkCanWrite = TRUE
    /\ written = <<>>
    /\ flushes = 0
    /\ returned = "none"
    /\ ring = RingBufferNew(RingN, 0)
    /\ ringPushed = <<>>
    /\ ringPopped = <<>>
    /\ ringPeeked = <<>>

Init ==
    /\ ValidArgs
    /\ threadCount \in 0..MaxThreads
    /\ stream \in Streams(MaxTriangles)
    /\ vertexCount \in {0, IF stream = <<>> THEN 3 ELSE 3 * Len(stream)}
    /\ colorStrategy \in {"MAX", "BLEND"}
    /\ InitPipeline
    /\ InitRingIdle
    /\ InitSplitIdle
    /\ InitOthersIdle

\* a stream longer than the queue, every triangle the same
InitLong ==
    /\ ValidArgs
    /\ threadCount \in 1..MaxLongThreads
    /\ stream = [k \in 1..(QueueCapacity + LongExtra) |-> TriA]
    /\ vertexCount = 3 * Len(stream)
    /\ colorStrategy = "MAX"
    /\ InitPipeline
    /\ InitRingIdle
    /\ InitSplitIdle
    /\ InitOthersIdle

\* two workers; contributions to one cell whose weights tie (TriA, TriC) or
\* differ (TriBig), and triangles that cover cells the others do not (TriD)
InitRound ==
    /\ ValidArgs
    /\ threadCount = 2
    /\ stream \in {<<TriBig, TriA, TriA>>, <<TriA, TriC, TriA>>, <<TriB, TriD, TriBig>>}
    /\ vertexCount = 3 * Len(stream)
    /\ colorStrategy \in {"MAX", "BLEND"}
    /\ InitPipeline
    /\ InitRingIdle
    /\ InitSplitIdle
    /\ InitOthersIdle

\* any VoxelizationArgs: resolution is a u32, permutation a Vec3u
InitArgs ==
    /\ resolution \in 0..MaxResolution
    /\ permutation \in {<<0, 1, 2>>, <<2, 0, 1>>, <<0, 0, 1>>, <<0, 1, 3>>}
    /\ threadCount \in 0..MaxArgsThreads
    /\ stream \in Streams(MaxArgsTriangles)
    /\ vertexCount \in {0, IF stream = <<>> THEN 3 ELSE 3 * Len(stream)}
    /\ colorStrategy \in {"MAX", "BLEND"}
    /\ InitPipeline
    /\ InitRingIdle
    /\ InitSplitIdle
    /\ InitOthersIdle

(***************************************************************************)
(* Condition variables                                                     *)
(***************************************************************************)
\* a push that forgets readCon.notify_one()
NotifyNone(waiting) == {waiting}

\* readCon.notify_one(): one blocked worker, if there is any, is unblocked
NotifyOne(waiting) == IF waiting = {} THEN {waiting} ELSE {waiting \ {t} : t \in waiting}

\* the history entry of a command just issued
NewEntry == [recv |-> 0, exec |-> 0, comp |-> 0]

Bump(l, id, field) ==
    IF id \in 1..Len(l) THEN [l EXCEPT ![id][field] = l[id][field] + 1] ELSE l

(***************************************************************************)
(* CommandQueue (filevoxelization.cpp:57-87) over async::RingBuffer        *)
(* (threading.hpp:89-184) and async::Counter (threading.hpp:223-278)       *)
(***************************************************************************)
\* a push that does not wait for space
PushReadyAlways == TRUE

\* a pop that does not wait for an element
PopReadyAlways == TRUE

\* writeCon.wait(lock, [this] { return not buffer.full(); })
PushReady == ~RB_full(rb, QueueCapacity)

\* readCon.wait(lock, [this] { return not buffer.empty(); })
PopReady == ~RB_empty(rb)

\* a completion signal taken from the queue: waitUntilEmpty instead of the counter
CompletionReadyQueueEmpty == RB_empty(rb)

\* a waitForCompletion that never blocks
CompletionReadyAlways == TRUE

\* Counter::waitUntilZero: wait([this](type t) { return t == 0; })
CompletionReady == count = 0

\* an issue that does not count the command
CounterIncLost(c) == c

\* Counter::operator++
CounterInc(c) == UWrap(c + 1)

\* Counter::operator--
CounterDec(c) == UWrap(c - 1)

\* CommandQueue::issue, first half: ++commandCounter
D_issueInc ==
    /\ dpc = "issue_inc"
    /\ count' = CounterInc(count)
    /\ countWait' = FALSE
    /\ log' = Append(log, NewEntry)
    /\ dcmd' = [dcmd EXCEPT !.id = Len(log) + 1]
    /\ dpc' = "issue_push"
    /\ UNCHANGED <<inputVars, nextTri, dret, idx, mergeTarget, mergeSource, commandsIssued,
                   result, rb, readWait, writeWait, workerVars, failed, mergeStart, passMaps, exits, sinkVars, ringVars, splitVars, eventVars, clipVars, subVars, mainVars>>

\* CommandQueue::issue, second half: buffer.push(std::move(command))
D_issuePush ==
    /\ dpc = "issue_push"
    /\ ~writeWait
    /\ IF PushReady
       THEN /\ rb' = RB_push(rb, QueueCapacity, dcmd)
            /\ failed' = IF RB_pushAssert(rb, QueueCapacity) THEN failed
                         ELSE failed \cup {"ring_overflow"}
            /\ readWait' \in NotifyOne(readWait)
            /\ dpc' = dret
            /\ dcmd' = ExitCommand
            /\ UNCHANGED writeWait
       ELSE /\ writeWait' = TRUE
            /\ UNCHANGED <<rb, failed, readWait, dpc, dcmd>>
    /\ UNCHANGED <<inputVars, nextTri, dret, idx, mergeTarget, mergeSource,
                   commandsIssued, result, count, countWait, workerVars, log, mergeStart, passMaps,
                   exits, sinkVars, ringVars, splitVars, eventVars, clipVars, subVars, mainVars>>

(***************************************************************************)
(* WorkerThread::run (filevoxelization.cpp:109-136)                        *)
(***************************************************************************)
\* WorkerCommand command = queue.receive()
W_receive(i) ==
    /\ wpc[i] = "receive"
    /\ i \notin readWait
    /\ IF PopReady
       THEN /\ rb' = RB_pop(rb, QueueCapacity)
            /\ failed' = IF RB_popAssert(rb) THEN failed ELSE failed \cup {"ring_underflow"}
            /\ wcmd' = [wcmd EXCEPT ![i] = RB_popValue(rb, QueueCapacity)]
            /\ writeWait' = FALSE
            /\ wpc' = [wpc EXCEPT ![i] = "run"]
            /\ log' = Bump(log, RB_popValue(rb, QueueCapacity).id, "recv")
            /\ exits' = IF RB_popValue(rb, QueueCapacity).type = "EXIT"
                         THEN [exits EXCEPT ![i] = exits[i] + 1] ELSE exits
            /\ UNCHANGED readWait
       ELSE /\ readWait' = readWait \cup {i}
            /\ UNCHANGED <<rb, failed, wcmd, writeWait, wpc, log, exits>>
    /\ UNCHANGED <<inputVars, driverVars, count, countWait, looping, voxels, mergeStart, passMaps,
                   sinkVars, ringVars, splitVars, eventVars, clipVars, subVars, mainVars>>

\* MERGE_MAPS clears the source without merging it into the target
VoxelsAfterSourceDropped(i, command) ==
    IF command.type = "VOXELIZE_TRIANGLE"
    THEN [voxels EXCEPT ![i] = VoxelizeInto(colorStrategy, voxels[i], command.triangle)]
    ELSE IF command.type = "MERGE_MAPS"
    THEN [voxels EXCEPT ![command.source] = EmptyMap]
    ELSE voxels

\* MERGE_MAPS without command.mergeMaps.source->clear()
VoxelsAfterSourceKept(i, command) ==
    IF command.type = "VOXELIZE_TRIANGLE"
    THEN [voxels EXCEPT ![i] = VoxelizeInto(colorStrategy, voxels[i], command.triangle)]
    ELSE IF command.type = "MERGE_MAPS"
    THEN [voxels EXCEPT
             ![command.target] =
                 MergedTarget(colorStrategy, voxels[command.target], voxels[command.source])]
    ELSE voxels

\* switch (command.type): the maps after the command has run
VoxelsAfter(i, command) ==
    IF command.type = "VOXELIZE_TRIANGLE"
    THEN [voxels EXCEPT ![i] = VoxelizeInto(colorStrategy, voxels[i], command.triangle)]
    ELSE IF command.type = "MERGE_MAPS"
    THEN [voxels EXCEPT
             ![command.target] =
                 MergedTarget(colorStrategy, voxels[command.target], voxels[command.source]),
             ![command.source] = EmptyMap]
    ELSE voxels

LoopingAfter(command) == command.type # "EXIT"

W_run(i) ==
    /\ wpc[i] = "run"
    /\ voxels' = VoxelsAfter(i, wcmd[i])
    /\ looping' = [looping EXCEPT ![i] = LoopingAfter(wcmd[i])]
    /\ wpc' = [wpc EXCEPT ![i] = "complete"]
    /\ log' = Bump(log, wcmd[i].id, "exec")
    /\ UNCHANGED <<inputVars, driverVars, queueVars, wcmd, failed, mergeStart, passMaps, exits, sinkVars, ringVars, splitVars, eventVars, clipVars, subVars, mainVars>>

\* queue.complete(); } while (looping);
W_complete(i) ==
    /\ wpc[i] = "complete"
    /\ count' = CounterDec(count)
    /\ failed' = IF count = 0 THEN failed \cup {"counter_wrap"} ELSE failed
    /\ countWait' = FALSE
    /\ wpc' = [wpc EXCEPT ![i] = IF looping[i] THEN "receive" ELSE "exited"]
    /\ log' = Bump(log, wcmd[i].id, "comp")
    /\ wcmd' = [wcmd EXCEPT ![i] = ExitCommand]
    /\ UNCHANGED <<inputVars, driverVars, rb, readWait, writeWait, looping, voxels,
                   mergeStart, passMaps, exits, sinkVars, ringVars, splitVars, eventVars, clipVars, subVars, mainVars>>

(***************************************************************************)
(* voxelize (filevoxelization.cpp:202-240)                                 *)
(***************************************************************************)
\* if (stream.vertexCount() == 0) { sink.flush(); return true; }
\* the check is lost: a mesh without vertices is voxelized like any other
EmptyMeshIgnored == FALSE

\* stream.vertexCount() == 0 (line 204)
EmptyMesh == vertexCount = 0

D_start ==
    /\ dpc = "start"
    /\ IF EmptyMesh
       THEN dpc' = "done" /\ flushes' = flushes + 1 /\ returned' = "true" /\ UNCHANGED idx
       ELSE dpc' = "spawn" /\ idx' = 0 /\ UNCHANGED <<flushes, returned>>
    /\ UNCHANGED <<inputVars, nextTri, dcmd, dret, mergeTarget, mergeSource, commandsIssued,
                   result, queueVars, workerVars, historyVars, pending, sinkCanWrite,
                   written, ringVars, splitVars, eventVars, clipVars, subVars, mainVars>>

\* for (usize i = 0; i < threadCount; ++i) workers.emplace_back(...)
D_spawn ==
    /\ dpc = "spawn"
    /\ IF idx < threadCount
       THEN /\ wpc' = [wpc EXCEPT ![idx + 1] = "receive"]
            /\ idx' = idx + 1
            /\ UNCHANGED dpc
       ELSE /\ dpc' = "stream"
            /\ UNCHANGED <<wpc, idx>>
    /\ UNCHANGED <<inputVars, nextTri, dcmd, dret, mergeTarget, mergeSource, commandsIssued,
                   result, queueVars, wcmd, looping, voxels, historyVars, sinkVars, ringVars, splitVars, eventVars, clipVars, subVars, mainVars>>

\* while (stream.hasNext()) queue.issue(WorkerCommand{stream.next()})
D_stream ==
    /\ dpc = "stream"
    /\ IF nextTri < Len(stream)
       THEN /\ dcmd' = VoxelizeCommand(stream[nextTri + 1])
            /\ nextTri' = nextTri + 1
            /\ dpc' = "issue_inc"
            /\ dret' = "stream"
       ELSE /\ dpc' = "wait_voxelized"
            /\ UNCHANGED <<dcmd, nextTri, dret>>
    /\ UNCHANGED <<inputVars, idx, mergeTarget, mergeSource, commandsIssued, result,
                   queueVars, workerVars, historyVars, sinkVars, ringVars, splitVars, eventVars, clipVars, subVars, mainVars>>

\* queue.waitForCompletion() (line 234)
D_waitVoxelized ==
    /\ dpc = "wait_voxelized"
    /\ ~countWait
    /\ IF CompletionReady
       THEN dpc' = "merge_begin" /\ mergeStart' = voxels /\ UNCHANGED <<countWait, passMaps>>
       ELSE countWait' = TRUE /\ UNCHANGED <<dpc, mergeStart, passMaps>>
    /\ UNCHANGED <<inputVars, nextTri, dcmd, dret, idx, mergeTarget, mergeSource,
                   commandsIssued, result, rb, count, readWait, writeWait, workerVars, log,
                   failed, exits, sinkVars, ringVars, splitVars, eventVars, clipVars, subVars, mainVars>>

(***************************************************************************)
(* mergeVoxelMaps (filevoxelization.cpp:138-171)                           *)
(***************************************************************************)
\* while (true) { mergeTarget = nullptr, mergeSource = nullptr; commandsIssued = 0;
D_mergeBegin ==
    /\ dpc = "merge_begin"
    /\ mergeTarget' = 0
    /\ mergeSource' = 0
    /\ commandsIssued' = 0
    /\ idx' = 1
    /\ dpc' = "merge_scan"
    /\ passMaps' = {}
    /\ UNCHANGED <<inputVars, nextTri, dcmd, dret, result, queueVars, workerVars,
                   log, failed, mergeStart, exits, sinkVars, ringVars, splitVars, eventVars, clipVars, subVars, mainVars>>

\* the comparison is reversed: the smaller map becomes the target
SwapNeededReversed(t, s) == MapSize(voxels[t]) > MapSize(voxels[s])

\* if (mergeTarget->size() < mergeSource->size()) std::swap(mergeTarget, mergeSource)
SwapNeeded(t, s) == MapSize(voxels[t]) < MapSize(voxels[s])

\* only mergeSource is reset, the target stays pending for the next map
PairResetSourceOnly == [target |-> mergeTarget, source |-> 0]

\* mergeTarget = mergeSource = nullptr (line 161)
PairReset == [target |-> 0, source |-> 0]

\* the pending unpaired map is forgotten
MergeResultEmpty == EmptyMap

\* return mergeTarget == nullptr ? VoxelMap<WeightedColor>() : std::move(*mergeTarget)
MergeResult == IF mergeTarget = 0 THEN EmptyMap ELSE voxels[mergeTarget]

\* one iteration of for (auto &voxelizer : threads)
D_mergeScan ==
    /\ dpc = "merge_scan"
    /\ IF idx > threadCount
       THEN /\ dpc' = "merge_check"
            /\ UNCHANGED <<idx, mergeTarget, mergeSource, commandsIssued, dcmd, dret, failed,
                           passMaps>>
       ELSE IF MapEmpty(voxels[idx])
       THEN /\ idx' = idx + 1
            /\ UNCHANGED <<dpc, mergeTarget, mergeSource, commandsIssued, dcmd, dret, failed,
                           passMaps>>
       ELSE IF mergeTarget = 0
       THEN /\ mergeTarget' = idx
            /\ idx' = idx + 1
            /\ UNCHANGED <<dpc, mergeSource, commandsIssued, dcmd, dret, failed, passMaps>>
       ELSE LET swap == SwapNeeded(mergeTarget, idx)
                t == IF swap THEN idx ELSE mergeTarget
                s == IF swap THEN mergeTarget ELSE idx
            IN  /\ mergeTarget' = t
                /\ mergeSource' = s
                /\ commandsIssued' = commandsIssued + 1
                /\ dcmd' = MergeCommand(t, s)
                /\ passMaps' = passMaps \cup {t, s}
                /\ failed' = IF t # s THEN failed ELSE failed \cup {"merge_same_map"}
                /\ dpc' = "issue_inc"
                /\ dret' = "merge_issued"
                /\ UNCHANGED idx
    /\ UNCHANGED <<inputVars, nextTri, result, queueVars, workerVars, log, mergeStart,
                   exits, sinkVars, ringVars, splitVars, eventVars, clipVars, subVars, mainVars>>

\* the scan stays at the worker whose map has just been named by a command
ScanNextSame == idx

\* for (auto &voxelizer : threads): on to the next worker
ScanNext == idx + 1

\* after queue.issue(WorkerCommand{mergeTarget, mergeSource}) has returned
D_mergeIssued ==
    /\ dpc = "merge_issued"
    /\ mergeTarget' = PairReset.target
    /\ mergeSource' = PairReset.source
    /\ idx' = ScanNext
    /\ dpc' = "merge_scan"
    /\ UNCHANGED <<inputVars, nextTri, dcmd, dret, commandsIssued, result, queueVars,
                   workerVars, historyVars, sinkVars, ringVars, splitVars, eventVars, clipVars, subVars, mainVars>>

\* if (commandsIssued == 0) return ...; (the moved-from map is left empty)
D_mergeCheck ==
    /\ dpc = "merge_check"
    /\ IF commandsIssued = 0
       THEN /\ result' = MergeResult
            /\ voxels' = IF mergeTarget = 0 THEN voxels
                         ELSE [voxels EXCEPT ![mergeTarget] = EmptyMap]
            /\ dpc' = "join_issue"
            /\ idx' = 0
       ELSE /\ dpc' = "merge_wait"
            /\ UNCHANGED <<result, voxels, idx>>
    /\ UNCHANGED <<inputVars, nextTri, dcmd, dret, mergeTarget, mergeSource, commandsIssued,
                   queueVars, wpc, wcmd, looping, historyVars, sinkVars, ringVars, splitVars, eventVars, clipVars, subVars, mainVars>>

\* queue.waitForCompletion() (line 169)
D_waitMerged ==
    /\ dpc = "merge_wait"
    /\ ~countWait
    /\ IF CompletionReady
       THEN dpc' = "merge_begin" /\ UNCHANGED countWait
       ELSE countWait' = TRUE /\ UNCHANGED dpc
    /\ UNCHANGED <<inputVars, nextTri, dcmd, dret, idx, mergeTarget, mergeSource,
                   commandsIssued, result, rb, count, readWait, writeWait, workerVars,
                   historyVars, sinkVars, ringVars, splitVars, eventVars, clipVars, subVars, mainVars>>

(***************************************************************************)
(* joinWorkers (filevoxelization.cpp:173-181)                              *)
(***************************************************************************)
\* i <= threads.size(): one EXIT too many
ExitsToIssueOneMore == threadCount + 1

\* i < threads.size() (line 175)
ExitsToIssue == threadCount

\* for (usize i = 0; i < threads.size(); ++i) queue.issue(WorkerCommand::exit())
D_joinIssue ==
    /\ dpc = "join_issue"
    /\ IF idx < ExitsToIssue
       THEN /\ idx' = idx + 1
            /\ dcmd' = ExitCommand
            /\ dpc' = "issue_inc"
            /\ dret' = "join_issue"
       ELSE /\ dpc' = "join"
            /\ idx' = 1
            /\ UNCHANGED <<dcmd, dret>>
    /\ UNCHANGED <<inputVars, nextTri, mergeTarget, mergeSource, commandsIssued, result,
                   queueVars, workerVars, historyVars, sinkVars, ringVars, splitVars, eventVars, clipVars, subVars, mainVars>>

\* for (auto &worker : threads) worker.join()
D_join ==
    /\ dpc = "join"
    /\ IF idx > threadCount
       THEN dpc' = "downscale" /\ UNCHANGED idx
       ELSE wpc[idx] = "exited" /\ idx' = idx + 1 /\ UNCHANGED dpc
    /\ UNCHANGED <<inputVars, nextTri, dcmd, dret, mergeTarget, mergeSource, commandsIssued,
                   result, queueVars, workerVars, historyVars, sinkVars, ringVars, splitVars, eventVars, clipVars, subVars, mainVars>>

(***************************************************************************)
(* voxelize, after the join (filevoxelization.cpp:242-264)                 *)
(***************************************************************************)
\* downscale(result, strategy): every cell is combined into the cell at pos / 2,
\* in the order the map is iterated
RECURSIVE DownscaleIn(_, _, _)
DownscaleIn(strategy, m, order) ==
    IF order = <<>> THEN EmptyMap
    ELSE LET n == Len(order)
             before == DownscaleIn(strategy, m, SubSeq(order, 1, n - 1))
             pos == order[n]
             dst == <<pos[1] \div 2, pos[2] \div 2, pos[3] \div 2>>
         IN  MergedTarget(strategy, before, dst :> m[pos])

Orders(S) == {o \in [1..Cardinality(S) -> S] : \A a, b \in 1..Cardinality(S) : a # b => o[a] # o[b]}

\* Color32{color.value.x(), ...}: a channel is clamped to 0..255, rounded toward zero
ToChannel(value) ==
    LET q == value[1] \div value[2]
    IN  IF q < 0 THEN 0 ELSE IF q > 255 THEN 255 ELSE q

Voxel32(pos, color) == [pos |-> pos, argb |-> ToChannel(color.value)]

\* if (args.downscale) result = downscale(result, args.colorStrategy);
\* args.downscale is read here and nowhere else
D_downscale ==
    /\ dpc = "downscale"
    /\ \E down \in BOOLEAN :
          IF down
          THEN \E order \in Orders(DOMAIN result) :
                  /\ result' = DownscaleIn(colorStrategy, result, order)
                  /\ pending' = DOMAIN DownscaleIn(colorStrategy, result, order)
          ELSE result' = result /\ pending' = DOMAIN result
    /\ dpc' = "write"
    /\ UNCHANGED <<inputVars, nextTri, dcmd, dret, idx, mergeTarget, mergeSource,
                   commandsIssued, queueVars, workerVars, historyVars, sinkCanWrite, written,
                   flushes, returned, ringVars, splitVars, eventVars, clipVars, subVars, mainVars>>

\* for (auto &[index, color] : result): one iteration, or the end of the loop;
\* the order of iteration of a VoxelMap is not specified
D_write ==
    /\ dpc = "write"
    /\ IF pending = {}
       THEN /\ returned' = "true"
            /\ dpc' = "done"
            /\ UNCHANGED <<pending, written>>
       ELSE IF ~sinkCanWrite
       THEN /\ returned' = "false"
            /\ dpc' = "done"
            /\ UNCHANGED <<pending, written>>
       ELSE \E pos \in pending :
               /\ written' = Append(written, Voxel32(pos, result[pos]))
               /\ pending' = pending \ {pos}
               /\ UNCHANGED <<returned, dpc>>
    /\ UNCHANGED <<inputVars, nextTri, dcmd, dret, idx, mergeTarget, mergeSource,
                   commandsIssued, result, queueVars, workerVars, historyVars, sinkCanWrite,
                   flushes, ringVars, splitVars, eventVars, clipVars, subVars, mainVars>>

\* the sink meets an I/O error: canWrite() is false from now on.  Before the
\* output loop nothing reads the sink, so the error is placed inside the loop.
SinkFails ==
    /\ dpc = "write"
    /\ sinkCanWrite
    /\ sinkCanWrite' = FALSE
    /\ UNCHANGED <<inputVars, driverVars, queueVars, workerVars, historyVars, pending,
                   written, flushes, returned, ringVars, splitVars, eventVars, clipVars, subVars, mainVars>>

(***************************************************************************)
(* A wakeup of condition_variable::wait without a notification             *)
(***************************************************************************)
Wakeup ==
    /\ \/ \E i \in readWait : readWait' = readWait \ {i} /\ UNCHANGED <<writeWait, countWait>>
       \/ writeWait /\ writeWait' = FALSE /\ UNCHANGED <<readWait, countWait>>
       \/ countWait /\ countWait' = FALSE /\ UNCHANGED <<readWait, writeWait>>
    /\ UNCHANGED <<inputVars, driverVars, rb, count, workerVars, historyVars, sinkVars, ringVars, splitVars, eventVars, clipVars, subVars, mainVars>>

(***************************************************************************)
(* RingBuffer<int, RingN> used by one thread (threading.hpp:18-78); pop,   *)
(* push and peek are called only where their assertions hold.              *)
(***************************************************************************)
R_push(v) ==
    /\ Len(ringPushed) < MaxRingOps
    /\ RB_pushAssert(ring, RingN)
    /\ ring' = RB_push(ring, RingN, v)
    /\ ringPushed' = Append(ringPushed, v)
    /\ ringPeeked' = <<>>
    /\ UNCHANGED <<inputVars, driverVars, queueVars, workerVars, historyVars, sinkVars, ringPopped,
                   splitVars, eventVars, clipVars, subVars, mainVars>>

R_pop ==
    /\ RB_popAssert(ring)
    /\ ring' = RB_pop(ring, RingN)
    /\ ringPopped' = Append(ringPopped, RB_popValue(ring, RingN))
    /\ ringPeeked' = <<>>
    /\ UNCHANGED <<inputVars, driverVars, queueVars, workerVars, historyVars, sinkVars, ringPushed,
                   splitVars, eventVars, clipVars, subVars, mainVars>>

\* clear() drops the elements held: the values pushed and not yet popped are
\* taken out of ringPushed, which keeps the pushes that were or can be popped
R_clear ==
    /\ ring' = RB_clear(ring)
    /\ ringPushed' = SubSeq(ringPushed, 1, Len(ringPopped))
    /\ ringPeeked' = <<>>
    /\ UNCHANGED <<inputVars, driverVars, queueVars, workerVars, historyVars, sinkVars, ringPopped,
                   splitVars, eventVars, clipVars, subVars, mainVars>>

\* peek() is called only where its assertion holds
R_peek ==
    /\ RB_peekAssert(ring)
    /\ ringPeeked = <<>>
    /\ ringPeeked' = <<RB_peek(ring)>>
    /\ UNCHANGED <<inputVars, driverVars, queueVars, workerVars, historyVars, sinkVars, ring,
                   ringPushed, ringPopped, splitVars, eventVars, clipVars, subVars, mainVars>>

NextRing ==
    \/ \E v \in 1..RingVals : R_push(v)
    \/ R_pop
    \/ R_clear
    \/ R_peek

(***************************************************************************)
(* async::Event (threading.hpp:186-220).  Each method holds the mutex for  *)
(* its whole body, except that condition.wait releases it while the thread *)
(* is blocked; std::condition_variable::wait may return without a          *)
(* notification.                                                            *)
(***************************************************************************)
\* notify_all reaches no thread
NotifyAllLost(pc) == pc

\* condition.notify_all(): every thread blocked in condition.wait is woken
NotifyAll(pc) == [t \in DOMAIN pc |-> IF pc[t] = "waiting" THEN "notified" ELSE pc[t]]

\* wait(): if (flag) return false; condition.wait(lock)
E_wait(t) ==
    /\ evPc[t] = "idle"
    /\ IF evFlag
       THEN /\ evWaits' = [evWaits EXCEPT ![t] = "immediate"]
            /\ UNCHANGED evPc
       ELSE /\ evWaits' = [evWaits EXCEPT ![t] = "blocked"]
            /\ evPc' = [evPc EXCEPT ![t] = "waiting"]
    /\ UNCHANGED <<inputVars, driverVars, queueVars, workerVars, historyVars, sinkVars, ringVars,
                   splitVars, evFlag, evTriggers, clipVars, subVars, mainVars>>

\* trigger(): flag = true; condition.notify_all()
E_trigger(t) ==
    /\ evPc[t] = "idle"
    /\ evTriggers < MaxTriggers
    /\ evFlag' = TRUE
    /\ evPc' = NotifyAll(evPc)
    /\ evWaits' = [u \in EventThreads |->
                      IF evPc[u] \in {"waiting", "woken"} THEN "triggered" ELSE evWaits[u]]
    /\ evTriggers' = evTriggers + 1
    /\ UNCHANGED <<inputVars, driverVars, queueVars, workerVars, historyVars, sinkVars, ringVars,
                   splitVars, clipVars, subVars, mainVars>>

\* reset(): flag = false
E_reset(t) ==
    /\ evPc[t] = "idle"
    /\ evFlag' = FALSE
    /\ evTriggers' = 0
    /\ UNCHANGED <<inputVars, driverVars, queueVars, workerVars, historyVars, sinkVars, ringVars,
                   splitVars, evPc, evWaits, clipVars, subVars, mainVars>>

\* condition.wait returns although no thread has notified
E_spurious(t) ==
    /\ evPc[t] = "waiting"
    /\ evPc' = [evPc EXCEPT ![t] = "woken"]
    /\ UNCHANGED <<inputVars, driverVars, queueVars, workerVars, historyVars, sinkVars, ringVars,
                   splitVars, evFlag, evWaits, evTriggers, clipVars, subVars, mainVars>>

\* condition.wait has the mutex again; return true
E_return(t) ==
    /\ evPc[t] \in {"notified", "woken"}
    /\ evPc' = [evPc EXCEPT ![t] = "idle"]
    /\ evWaits' = [evWaits EXCEPT ![t] = IF evWaits[t] = "triggered" THEN "returnedTriggered"
                                         ELSE "returnedUntriggered"]
    /\ UNCHANGED <<inputVars, driverVars, queueVars, workerVars, historyVars, sinkVars, ringVars,
                   splitVars, evFlag, evTriggers, clipVars, subVars, mainVars>>

NextEvent ==
    \E t \in EventThreads :
        \/ E_wait(t)
        \/ E_trigger(t)
        \/ E_reset(t)
        \/ E_spurious(t)
        \/ E_return(t)

(***************************************************************************)
(* splitTriangle (voxelization.cpp:14-249)                                 *)
(*                                                                         *)
(* A real_type is an exact rational <<num, den>>, den > 0, in lowest       *)
(* terms.  Lengths are counted in units of EPSILON / 2, so that EPSILON    *)
(* (2^-16 of a voxel) is 2 units and a voxel is 2^17 units.                *)
(***************************************************************************)
EpsilonUnits == 2

UnitsPerVoxel == 131072

RNorm(n, d) ==
    LET sn == IF d < 0 THEN -n ELSE n
        sd == IF d < 0 THEN -d ELSE d
        g == Gcd(IF sn < 0 THEN -sn ELSE sn, sd)
    IN  IF sn = 0 THEN <<0, 1>> ELSE <<sn \div g, sd \div g>>

Real(i) == <<i, 1>>

RAdd(a, b) == RNorm(a[1] * b[2] + b[1] * a[2], a[2] * b[2])

RSub(a, b) == RNorm(a[1] * b[2] - b[1] * a[2], a[2] * b[2])

RMul(a, b) == RNorm(a[1] * b[1], a[2] * b[2])

RDiv(a, b) == RNorm(a[1] * b[2], a[2] * b[1])

RNeg(a) == <<-a[1], a[2]>>

RAbs(a) == IF a[1] < 0 THEN RNeg(a) ELSE a

RLess(a, b) == a[1] * b[2] < b[1] * a[2]

RLeq(a, b) == a[1] * b[2] <= b[1] * a[2]

\* constexpr real_type EPSILON = real_type(1) / (1 << 16)
EPSILON == Real(EpsilonUnits)

\* real_type(plane)
PlaneReal(plane) == Real(plane * UnitsPerVoxel)

\* std::abs(x) < EPSILON
IsZero(x) == RLess(RAbs(x), EPSILON)

\* isZero(x - real_type(plane))
Eq(x, plane) == IsZero(RSub(x, PlaneReal(plane)))

\* the negation is lost: d = dir[axis]
IntersectRayAxisPlaneNoNeg(org, dir, axis, plane) ==
    LET d == dir[axis + 1]
    IN  IF IsZero(d) THEN Real(0) ELSE RDiv(RSub(org[axis + 1], PlaneReal(plane)), d)

\* d = -dir[axis]; return isZero(d) ? 0 : (org[axis] - real_type(plane)) / d
IntersectRayAxisPlane(org, dir, axis, plane) ==
    LET d == RNeg(dir[axis + 1])
    IN  IF IsZero(d) THEN Real(0) ELSE RDiv(RSub(org[axis + 1], PlaneReal(plane)), d)

VecSub(a, b) == [c \in DOMAIN a |-> RSub(a[c], b[c])]

\* mix(a, b, t): the point at parameter t on the way from a to b
Mix(a, b, t) == [c \in DOMAIN a |-> RAdd(a[c], RMul(RSub(b[c], a[c]), t))]

\* a TexturedTriangle: three vertices and their texture coordinates
TexturedTriangle(vs, ts) == [v |-> vs, uv |-> ts]

Vertex(t, i) == t.v[i + 1]

Texture(t, i) == t.uv[i + 1]

\* the vectors a call was given: aliased when the same vector is passed twice
Outputs(lo, hi, aliased) == [lo |-> lo, hi |-> hi, aliased |-> aliased, pushes |-> <<>>]

\* outLo.push_back(t), resp. outHi.push_back(t)
PushBack(out, t, lo) ==
    [lo |-> IF lo \/ out.aliased THEN Append(out.lo, t) ELSE out.lo,
     hi |-> IF ~lo \/ out.aliased THEN Append(out.hi, t) ELSE out.hi,
     aliased |-> out.aliased,
     pushes |-> Append(out.pushes, [t |-> t, lo |-> lo])]

\* the DISCARD_MODE is not looked at
PushLoIfTrueElseHiNoDiscard(mode, out, t, lo) == PushBack(out, t, lo)

\* pushLoIfTrueElseHi (lines 60-74)
PushLoIfTrueElseHi(mode, out, t, lo) ==
    IF mode = "NONE" THEN PushBack(out, t, lo)
    ELSE IF mode = "DISCARD_LO" THEN (IF ~lo THEN PushBack(out, t, lo) ELSE out)
    ELSE (IF lo THEN PushBack(out, t, lo) ELSE out)

\* planarVertices (lines 78-82)
PlanarVertices(axis, plane, t) == [i \in 0..2 |-> Eq(Vertex(t, i)[axis + 1], plane)]

\* loVertices (lines 92-96)
LoVertices(axis, plane, t) ==
    [i \in 0..2 |-> RLeq(Vertex(t, i)[axis + 1], PlaneReal(plane))]

\* bool + bool + bool
BoolSum(b) == Cardinality({i \in DOMAIN b : b[i]})

\* the first vertex is taken without looking at planarVertices
NonPlanarIndexFirst(planar) == 0

\* not planarVertices[0] ? 0 : not planarVertices[1] ? 1 : 2 (line 113)
NonPlanarIndex(planar) == IF ~planar[0] THEN 0 ELSE IF ~planar[1] THEN 1 ELSE 2

\* planarVertices[0] ? 0 : planarVertices[1] ? 1 : 2 (line 122)
PlanarIndex(planar) == IF planar[0] THEN 0 ELSE IF planar[1] THEN 1 ELSE 2

\* the ray of the one intersection test of the case planarSum == 1 (lines 140-150)
OnePlanarRay(axis, plane, t) ==
    LET planarIndex == PlanarIndex(PlanarVertices(axis, plane, t))
        first == Vertex(t, (planarIndex + 1) % 3)
        second == Vertex(t, (planarIndex + 2) % 3)
    IN  [org |-> first, dir |-> VecSub(second, first)]

\* lines 121-170, after the early return of line 133
SplitOnePlanar(mode, axis, plane, t, out) ==
    LET planarIndex == PlanarIndex(PlanarVertices(axis, plane, t))
        loVertices == LoVertices(axis, plane, t)
        nonPlanarIndices == <<(planarIndex + 1) % 3, (planarIndex + 2) % 3>>
        planarVertex == Vertex(t, planarIndex)
        planarTexture == Texture(t, planarIndex)
        nonPlanarVertices == <<Vertex(t, nonPlanarIndices[1]), Vertex(t, nonPlanarIndices[2])>>
        nonPlanarTextures == <<Texture(t, nonPlanarIndices[1]), Texture(t, nonPlanarIndices[2])>>
        ray == OnePlanarRay(axis, plane, t)
        intersection == IntersectRayAxisPlane(ray.org, ray.dir, axis, plane)
        geoIntersection == Mix(nonPlanarVertices[1], nonPlanarVertices[2], intersection)
        texIntersection == Mix(nonPlanarTextures[1], nonPlanarTextures[2], intersection)
        triangles ==
            <<TexturedTriangle(<<planarVertex, nonPlanarVertices[1], geoIntersection>>,
                               <<planarTexture, nonPlanarTextures[1], texIntersection>>),
              TexturedTriangle(<<planarVertex, geoIntersection, nonPlanarVertices[2]>>,
                               <<planarTexture, texIntersection, nonPlanarTextures[2]>>)>>
        isFirstTriangleLo == loVertices[nonPlanarIndices[1]]
    IN  PushLoIfTrueElseHi(mode,
            PushLoIfTrueElseHi(mode, out, triangles[1], isFirstTriangleLo),
            triangles[2], ~isFirstTriangleLo)

\* isolatedIndex (lines 179-182)
IsolatedIndex(loVertices) ==
    IF BoolSum(loVertices) = 1
    THEN (IF loVertices[0] THEN 0 ELSE IF loVertices[1] THEN 1 ELSE 2)
    ELSE (IF ~loVertices[0] THEN 0 ELSE IF ~loVertices[1] THEN 1 ELSE 2)

\* the rays of the two intersection tests of the regular case (lines 202-210)
RegularRays(axis, plane, t) ==
    LET isolatedIndex == IsolatedIndex(LoVertices(axis, plane, t))
        isolatedVertex == Vertex(t, isolatedIndex)
    IN  <<[org |-> isolatedVertex,
           dir |-> VecSub(Vertex(t, (isolatedIndex + 1) % 3), isolatedVertex)],
          [org |-> isolatedVertex,
           dir |-> VecSub(Vertex(t, (isolatedIndex + 2) % 3), isolatedVertex)]>>

\* both texture points are mixed with intersections[0]
TexIsectPointsOneParameter(isolatedTexture, otherTextures, intersections) ==
    <<Mix(isolatedTexture, otherTextures[1], intersections[1]),
      Mix(isolatedTexture, otherTextures[2], intersections[1])>>

\* texIsectPoints (lines 216-219)
TexIsectPoints(isolatedTexture, otherTextures, intersections) ==
    <<Mix(isolatedTexture, otherTextures[1], intersections[1]),
      Mix(isolatedTexture, otherTextures[2], intersections[2])>>

\* the regular case (lines 173-246)
SplitRegular(mode, axis, plane, t, out) ==
    LET loVertices == LoVertices(axis, plane, t)
        isIsolatedLo == BoolSum(loVertices) = 1
        isolatedIndex == IsolatedIndex(loVertices)
        otherIndices == <<(isolatedIndex + 1) % 3, (isolatedIndex + 2) % 3>>
        isolatedVertex == Vertex(t, isolatedIndex)
        isolatedTexture == Texture(t, isolatedIndex)
        otherVertices == <<Vertex(t, otherIndices[1]), Vertex(t, otherIndices[2])>>
        otherTextures == <<Texture(t, otherIndices[1]), Texture(t, otherIndices[2])>>
        rays == RegularRays(axis, plane, t)
        intersections ==
            <<IntersectRayAxisPlane(rays[1].org, rays[1].dir, axis, plane),
              IntersectRayAxisPlane(rays[2].org, rays[2].dir, axis, plane)>>
        geoIsectPoints ==
            <<Mix(isolatedVertex, otherVertices[1], intersections[1]),
              Mix(isolatedVertex, otherVertices[2], intersections[2])>>
        texIsectPoints == TexIsectPoints(isolatedTexture, otherTextures, intersections)
        isolatedTriangle ==
            TexturedTriangle(<<isolatedVertex, geoIsectPoints[1], geoIsectPoints[2]>>,
                             <<isolatedTexture, texIsectPoints[1], texIsectPoints[2]>>)
        otherTriangles ==
            <<TexturedTriangle(<<geoIsectPoints[1], otherVertices[1], otherVertices[2]>>,
                               <<texIsectPoints[1], otherTextures[1], otherTextures[2]>>),
              TexturedTriangle(<<geoIsectPoints[1], geoIsectPoints[2], otherVertices[2]>>,
                               <<texIsectPoints[1], texIsectPoints[2], otherTextures[2]>>)>>
    IN  PushLoIfTrueElseHi(mode,
            PushLoIfTrueElseHi(mode,
                PushLoIfTrueElseHi(mode, out, isolatedTriangle, isIsolatedLo),
                otherTriangles[1], ~isIsolatedLo),
            otherTriangles[2], ~isIsolatedLo)

\* the branch a call takes (lines 84-173): the tests in the order of the code
SplitCase(axis, plane, t) ==
    LET planarVertices == PlanarVertices(axis, plane, t)
        planarSum == BoolSum(planarVertices)
        loVertices == LoVertices(axis, plane, t)
        loSum == BoolSum(loVertices)
        planarIndex == PlanarIndex(planarVertices)
        nonPlanarLoSum == BoolSum([k \in {(planarIndex + 1) % 3, (planarIndex + 2) % 3}
                                     |-> loVertices[k]])
    IN  IF planarSum = 3 THEN "allPlanar"
        ELSE IF loSum = 0 THEN "allHi"
        ELSE IF loSum = 3 THEN "allLo"
        ELSE IF planarSum = 2 THEN "twoPlanar"
        ELSE IF planarSum = 1
        THEN (IF nonPlanarLoSum # 1
              THEN (IF nonPlanarLoSum = 2 THEN "onePlanarLo" ELSE "onePlanarHi")
              ELSE "onePlanarCut")
        ELSE "regular"

\* the rays a call hands to intersect_ray_axisPlane
IntersectionRays(axis, plane, t) ==
    LET case == SplitCase(axis, plane, t)
    IN  IF case = "onePlanarCut" THEN <<OnePlanarRay(axis, plane, t)>>
        ELSE IF case = "regular" THEN RegularRays(axis, plane, t)
        ELSE <<>>

\* splitTriangle<DISCARD_MODE>(axis, plane, t, outLo, outHi) (lines 51-249)
SplitTriangle(mode, axis, plane, t, out) ==
    LET case == SplitCase(axis, plane, t)
    IN  IF case = "allPlanar" THEN PushLoIfTrueElseHi(mode, out, t, TRUE)
        ELSE IF case = "allHi" THEN PushLoIfTrueElseHi(mode, out, t, FALSE)
        ELSE IF case = "allLo" THEN PushLoIfTrueElseHi(mode, out, t, TRUE)
        ELSE IF case = "twoPlanar"
        THEN LET nonPlanarIndex == NonPlanarIndex(PlanarVertices(axis, plane, t))
                 isNonPlanarLo == RLeq(Vertex(t, nonPlanarIndex)[axis + 1], PlaneReal(plane))
             IN  PushLoIfTrueElseHi(mode, out, t, isNonPlanarLo)
        ELSE IF case = "onePlanarLo" THEN PushLoIfTrueElseHi(mode, out, t, TRUE)
        ELSE IF case = "onePlanarHi" THEN PushLoIfTrueElseHi(mode, out, t, FALSE)
        ELSE IF case = "onePlanarCut" THEN SplitOnePlanar(mode, axis, plane, t, out)
        ELSE SplitRegular(mode, axis, plane, t, out)

\* one call of splitTriangle in mode mode
S_split(mode) ==
    /\ splitPc = "ready"
    /\ splitPc' = "done"
    /\ splitMode' = mode
    /\ splitOut' = SplitTriangle(mode, splitIn.axis, splitIn.plane, splitIn.t, splitIn.out)
    /\ UNCHANGED <<inputVars, driverVars, queueVars, workerVars, historyVars, sinkVars,
                   ringVars, splitIn, eventVars, clipVars, subVars, mainVars>>

NextSplit == \E mode \in {"NONE", "DISCARD_LO", "DISCARD_HI"} : S_split(mode)

(***************************************************************************)
(* voxelizeVoxel (voxelization.cpp:302-343) and its call site in           *)
(* voxelizeSubTriangle (voxelization.cpp:395-403)                          *)
(***************************************************************************)
\* a length in voxels
ToVoxels(x) == RDiv(x, Real(UnitsPerVoxel))

\* the cross product of the edges from vertex 0, in voxels
EdgeCross(t) ==
    LET e == [c \in 1..3 |-> ToVoxels(RSub(Vertex(t, 1)[c], Vertex(t, 0)[c]))]
        f == [c \in 1..3 |-> ToVoxels(RSub(Vertex(t, 2)[c], Vertex(t, 0)[c]))]
    IN  <<RSub(RMul(e[2], f[3]), RMul(e[3], f[2])),
          RSub(RMul(e[3], f[1]), RMul(e[1], f[3])),
          RSub(RMul(e[1], f[2]), RMul(e[2], f[1]))>>

\* Triangle::area(): half the length of the cross product.  The triangles
\* tried are perpendicular to an axis, so that one component of the cross
\* product is its length
Area(t) ==
    LET n == EdgeCross(t)
    IN  RMul(RAdd(RAdd(RAbs(n[1]), RAbs(n[2])), RAbs(n[3])), <<1, 2>>)

\* TexturedTriangle::textureCenter(): the mean of the three texture coordinates
TextureCenter(t) ==
    [c \in 1..2 |-> RMul(RAdd(RAdd(Texture(t, 0)[c], Texture(t, 1)[c]), Texture(t, 2)[c]),
                         <<1, 3>>)]

\* the vector a buffer pointer points to
PreSplitBuffer(bufs) == IF bufs.pre = "a" THEN bufs.a ELSE bufs.b

PostSplitBuffer(bufs) == IF bufs.pre = "a" THEN bufs.b ELSE bufs.a

\* the two vectors, preSplitBuffer pointing to the one named pre
Buffers(pre, preContent, postContent) ==
    IF pre = "a" THEN [a |-> preContent, b |-> postContent, pre |-> pre]
    ELSE [a |-> postContent, b |-> preContent, pre |-> pre]

\* std::swap(preSplitBuffer, postSplitBuffer)
SwapBuffers(bufs) == [bufs EXCEPT !.pre = IF bufs.pre = "a" THEN "b" ELSE "a"]

\* the modes as the specification names them
SplittingFunctionSwapped(hi) == IF hi = 1 THEN "DISCARD_LO" ELSE "DISCARD_HI"

\* hi ? splitTriangle<DiscardMode::DISCARD_HI> : splitTriangle<DiscardMode::DISCARD_LO>
SplittingFunction(hi) == IF hi = 1 THEN "DISCARD_HI" ELSE "DISCARD_LO"

\* for (const TexturedTriangle t : *preSplitBuffer)
\*     splittingFunction(axis, plane, t, *postSplitBuffer, *postSplitBuffer)
RECURSIVE StreamThrough(_, _, _, _, _, _)
StreamThrough(mode, axis, plane, pre, k, post) ==
    IF k > Len(pre) THEN post
    ELSE StreamThrough(mode, axis, plane, pre, k + 1,
                       SplitTriangle(mode, axis, plane, pre[k], Outputs(post, post, TRUE)).hi)

\* the pre-buffer is left as it is
ClearedKept(buffer) == buffer

\* preSplitBuffer->clear()
Cleared(buffer) == <<>>

\* const float weight = static_cast<float>(inputTriangle.area()), for every
\* fragment t
FragmentWeight(inputArea, t) == inputArea

\* result = mix(result, {weight, color}) over the fragments from k on: the
\* weights add up; the colour is sampled at the texture centre
RECURSIVE Accumulate(_, _, _, _)
Accumulate(inputArea, fragments, k, acc) ==
    IF k > Len(fragments) THEN acc
    ELSE Accumulate(inputArea, fragments, k + 1,
                    [weight |-> RAdd(acc.weight, FragmentWeight(inputArea, fragments[k])),
                     samples |-> Append(acc.samples, TextureCenter(fragments[k])),
                     fragments |-> Append(acc.fragments, fragments[k]),
                     path |-> "normal"])

\* every colour is inserted
NonZeroWeightAlways(color) == TRUE

\* not eqExactly(color.weight, 0.f)
NonZeroWeight(color) == color.weight # Real(0)

\* the cell the call is for
ClipPos == clipIn.cells[clipIn.next]

\* constexpr real_type distanceLimit = 2
DistanceLimit == 2

\* std::abs(signedDistance) > distanceLimit, where signedDistance is
\* dot(planeNormal, center - planeOrg) for the centre of the cell, planeOrg
\* vertex 0 and planeNormal the normal of the triangle at length 1: with n
\* the normal at any length, dot(n, center - planeOrg)^2 > limit^2 * dot(n, n)
PlaneDistanceExceeds(t, pos, limit) ==
    LET n == EdgeCross(t)
        d == [c \in 1..3 |-> RSub(RAdd(Real(pos[c]), <<1, 2>>), ToVoxels(Vertex(t, 0)[c]))]
        dot == RAdd(RAdd(RMul(n[1], d[1]), RMul(n[2], d[2])), RMul(n[3], d[3]))
        nn == RAdd(RAdd(RMul(n[1], n[1]), RMul(n[2], n[2])), RMul(n[3], n[3]))
    IN  RLess(RMul(Real(limit * limit), nn), RMul(dot, dot))

\* one turn of the loop over the cells up to the call (lines 384-399): the
\* cell is passed over when its centre is too far from the plane of the
\* triangle; else preSplitBuffer->push_back(subTriangle) and
\* voxelizeVoxel(inputTriangle, pos, ...) is entered
V_call ==
    /\ clipPc = "call"
    /\ IF PlaneDistanceExceeds(clipIn.t, ClipPos, DistanceLimit)
       THEN /\ IF clipIn.next < Len(clipIn.cells)
               THEN clipIn' = [clipIn EXCEPT !.next = clipIn.next + 1] /\ UNCHANGED clipPc
               ELSE clipPc' = "done" /\ UNCHANGED clipIn
            /\ UNCHANGED <<clipBuffers, clipCut, clipCuts, clipResult>>
       ELSE /\ clipBuffers' = [clipBuffers EXCEPT !.a = Append(clipBuffers.a, clipIn.t),
                                                  !.pre = "a"]
            /\ clipCut' = 0
            /\ clipCuts' = <<>>
            /\ clipResult' = [weight |-> Real(0), samples |-> <<>>, fragments |-> <<>>,
                              path |-> "none"]
            /\ clipPc' = "cut"
            /\ UNCHANGED clipIn
    /\ UNCHANGED <<inputVars, driverVars, queueVars, workerVars, historyVars, sinkVars, ringVars,
                   splitVars, eventVars, clipOut, subVars, mainVars>>

\* one turn of the loop over axis inside the loop over hi (lines 307-324)
V_cut ==
    /\ clipPc = "cut"
    /\ LET hi == clipCut \div 3
           axis == clipCut % 3
           plane == ClipPos[axis + 1] + hi
           mode == SplittingFunction(hi)
           post == StreamThrough(mode, axis, plane, PreSplitBuffer(clipBuffers), 1,
                                 PostSplitBuffer(clipBuffers))
           after == Buffers(clipBuffers.pre, Cleared(PreSplitBuffer(clipBuffers)), post)
       IN  /\ clipCuts' = Append(clipCuts, [mode |-> mode, axis |-> axis, plane |-> plane,
                                           hi |-> hi, cleared |-> PreSplitBuffer(after) = <<>>])
           /\ IF post = <<>>
              THEN /\ clipBuffers' = after
                   /\ clipResult' = [weight |-> Real(0), samples |-> <<>>, fragments |-> <<>>, path |-> "early"]
                   /\ clipPc' = "insert"
                   /\ UNCHANGED clipCut
              ELSE /\ clipBuffers' = SwapBuffers(after)
                   /\ clipCut' = clipCut + 1
                   /\ clipPc' = IF clipCut = 5 THEN "fold" ELSE "cut"
                   /\ UNCHANGED clipResult
    /\ UNCHANGED <<inputVars, driverVars, queueVars, workerVars, historyVars, sinkVars, ringVars,
                   splitVars, eventVars, clipIn, clipOut, subVars, mainVars>>

\* after the loops: swap back, fold the fragments, clear (lines 326-342)
V_fold ==
    /\ clipPc = "fold"
    /\ LET bufs == SwapBuffers(clipBuffers)
       IN  /\ clipResult' = Accumulate(clipIn.area, PostSplitBuffer(bufs), 1,
                                       [weight |-> Real(0), samples |-> <<>>,
                                        fragments |-> <<>>, path |-> "normal"])
           /\ clipBuffers' = Buffers(bufs.pre, PreSplitBuffer(bufs), Cleared(PostSplitBuffer(bufs)))
    /\ clipPc' = "insert"
    /\ UNCHANGED <<inputVars, driverVars, queueVars, workerVars, historyVars, sinkVars, ringVars,
                   splitVars, eventVars, clipIn, clipCut, clipCuts, clipOut, subVars, mainVars>>

\* if (not eqExactly(color.weight, 0.f)) insertColor<BLEND>(out, pos, color),
\* and on to the next cell (lines 381-383, 401-403)
V_insert ==
    /\ clipPc = "insert"
    /\ clipOut' = IF NonZeroWeight(clipResult)
                  THEN Append(clipOut, [pos |-> ClipPos, weight |-> clipResult.weight,
                                        cuts |-> Len(clipCuts),
                                        fragments |-> Len(clipResult.fragments)])
                  ELSE clipOut
    /\ IF clipIn.next < Len(clipIn.cells)
       THEN clipIn' = [clipIn EXCEPT !.next = clipIn.next + 1] /\ clipPc' = "call"
       ELSE clipPc' = "done" /\ UNCHANGED clipIn
    /\ UNCHANGED <<inputVars, driverVars, queueVars, workerVars, historyVars, sinkVars, ringVars,
                   splitVars, eventVars, clipBuffers, clipCut, clipCuts, clipResult, subVars, mainVars>>

NextClip ==
    \/ V_call
    \/ V_cut
    \/ V_fold
    \/ V_insert

(***************************************************************************)
(* subdivideLargeVolumeTriangles (voxelization.cpp:256-300)                *)
(***************************************************************************)
\* constexpr usize volumeLimit = 512
VolumeLimit == 512

\* an unsigned of 32 bits, as its two halves of 16 bits <<high, low>>
Half == 65536

U32(n) == <<(n \div Half) % Half, n % Half>>

\* x * s in unsigned arithmetic (modulo 2^32), for a factor s below 2^15
U32Mul(x, s) == <<(x[1] * s + (x[2] * s) \div Half) % Half, (x[2] * s) % Half>>

U32Less(x, n) == x[1] = 0 /\ x[2] < n

\* floor and ceiling of a coordinate, in voxels
FloorVoxel(x) == x[1] \div (x[2] * UnitsPerVoxel)

CeilVoxel(x) == -((-x[1]) \div (x[2] * UnitsPerVoxel))

MinOf(S) == CHOOSE x \in S : \A y \in S : x <= y

MaxOf(S) == CHOOSE x \in S : \A y \in S : y <= x

\* Triangle::voxelMin(): the floor of the least coordinate, per axis
VoxelMin(t) == [c \in 1..3 |-> MinOf({FloorVoxel(Vertex(t, i)[c]) : i \in 0..2})]

\* Triangle::voxelMax(): the ceiling of the greatest coordinate, per axis
VoxelMax(t) == [c \in 1..3 |-> MaxOf({CeilVoxel(Vertex(t, i)[c]) : i \in 0..2})]

\* const Vec3u size = vmax - vmin
BoxSize(t) == [c \in 1..3 |-> VoxelMax(t)[c] - VoxelMin(t)[c]]

\* const unsigned volume = size[0] * size[1] * size[2]
Volume(t) == U32Mul(U32Mul(U32(BoxSize(t)[1]), BoxSize(t)[2]), BoxSize(t)[3])

\* the middle of two points
Midpoint(a, b) == [c \in DOMAIN a |-> RMul(RAdd(a[c], b[c]), <<1, 2>>)]

\* TexturedTriangle::subdivide4: the centre piece first, then the three
\* corner pieces; texture coordinates likewise
Subdivide4(t) ==
    LET m01 == Midpoint(Vertex(t, 0), Vertex(t, 1))
        m12 == Midpoint(Vertex(t, 1), Vertex(t, 2))
        m20 == Midpoint(Vertex(t, 2), Vertex(t, 0))
        t01 == Midpoint(Texture(t, 0), Texture(t, 1))
        t12 == Midpoint(Texture(t, 1), Texture(t, 2))
        t20 == Midpoint(Texture(t, 2), Texture(t, 0))
    IN  <<TexturedTriangle(<<m01, m12, m20>>, <<t01, t12, t20>>),
          TexturedTriangle(<<Vertex(t, 0), m01, m20>>, <<Texture(t, 0), t01, t20>>),
          TexturedTriangle(<<m01, Vertex(t, 1), m12>>, <<t01, Texture(t, 1), t12>>),
          TexturedTriangle(<<m20, m12, Vertex(t, 2)>>, <<t20, t12, Texture(t, 2)>>)>>

\* abs(inputTriangle.normal()) up to its length: whole numbers without a
\* common factor (the triangles tried have vertices at whole voxels)
NormalDirection(t) ==
    LET n == EdgeCross(t)
        a == [c \in 1..3 |-> RAbs(n[c])[1]]
        g == Gcd(Gcd(a[1], a[2]), a[3])
    IN  IF g = 0 THEN a ELSE [c \in 1..3 |-> a[c] \div g]

\* diagonality01 < 1 / 2.f (lines 264-274).  With s the sum of the components
\* of the normal and q the sum of their squares, diagonality is s / sqrt(3 q)
\* and the test is s / sqrt(q) < (1 + sqrt(3)) / 2, which for s * s >= q is
\* 4 (s * s - q)^2 < 3 q^2
NearAxisAligned(t) ==
    LET n == NormalDirection(t)
        s == n[1] + n[2] + n[3]
        q == n[1] * n[1] + n[2] * n[2] + n[3] * n[3]
    IN  4 * (s * s - q) * (s * s - q) < 3 * q * q

\* out.push_back(inputTriangle); if (diagonality01 < 1 / 2.f) return (lines 264-274)
B_begin ==
    /\ subPc = "call"
    /\ subOut' = <<subIn>>
    /\ subI' = 0
    /\ subPc' = IF NearAxisAligned(subIn) THEN "done" ELSE "loop"
    /\ UNCHANGED <<inputVars, driverVars, queueVars, workerVars, historyVars, sinkVars, ringVars,
                   splitVars, eventVars, clipVars, subIn, subSteps, mainVars>>

\* one turn of for (usize i = 0; i < out.size();) (lines 276-299)
B_step ==
    /\ subPc = "loop"
    /\ IF subI >= Len(subOut)
       THEN subPc' = "done" /\ UNCHANGED <<subOut, subI, subSteps>>
       ELSE IF U32Less(Volume(subOut[subI + 1]), VolumeLimit)
       THEN subI' = subI + 1 /\ UNCHANGED <<subPc, subOut, subSteps>>
       ELSE LET subTriangles == Subdivide4(subOut[subI + 1])
            IN  /\ subOut' = [subOut EXCEPT ![subI + 1] = subTriangles[1]]
                                \o <<subTriangles[2], subTriangles[3], subTriangles[4]>>
                /\ subSteps' = subSteps + 1
                /\ UNCHANGED <<subPc, subI>>
    /\ UNCHANGED <<inputVars, driverVars, queueVars, workerVars, historyVars, sinkVars, ringVars,
                   splitVars, eventVars, clipVars, subIn, mainVars>>

NextSub ==
    \/ B_begin
    \/ B_step

(***************************************************************************)
(* main_impl and convert_map_voxelio (main.cpp:243-379)                    *)
(***************************************************************************)
\* constexpr usize VOXEL_BUFFER_BYTE_SIZE = 8192
VOXEL_BUFFER_BYTE_SIZE == 8192

\* sizeof(Voxel32): three i32 of position and 32 bits of colour or index
SizeofVoxel32 == 16

\* constexpr usize VOXEL_BUFFER_32_SIZE = VOXEL_BUFFER_BYTE_SIZE / sizeof(Voxel32)
VOXEL_BUFFER_32_SIZE == VOXEL_BUFFER_BYTE_SIZE \div SizeofVoxel32

\* an entry of VOXEL_BUFFER_32: the position, by its rank in the order of the
\* map, and which member of the union was assigned
BufferEntry(rank, member) == [pos |-> rank, member |-> member]

\* static Voxel32 VOXEL_BUFFER_32[VOXEL_BUFFER_32_SIZE]: zero-initialised
ZeroBuffer == [i \in 1..VOXEL_BUFFER_32_SIZE |-> BufferEntry(0, "none")]

\* requiresPalette(outFormat)
RequiresPalette(outFormat) == outFormat = "QUBICLE_EXCHANGE"

\* toUpperCase(colorStratStr), on the strings tried
ToUpperCase(str) ==
    CASE str = "max" -> "MAX"
      [] str = "Blend" -> "BLEND"
      [] OTHER -> str

\* parseColorStrategy(str, out): case sensitive
ParseColorStrategy(str) == str \in {"MAX", "BLEND"}

\* the conversion of an int to bool
IntToBool(i) == i # 0

\* the conversion of a bool to int
BoolToInt(b) == IF b THEN 1 ELSE 0

\* the five checks of main_impl, in order (lines 323-351)
ArgsAccepted(args) ==
    /\ ~args.inFileEmpty
    /\ args.outType # "none"
    /\ args.openOk
    /\ args.resolutionOk
    /\ ParseColorStrategy(ToUpperCase(args.colorStratStr))

\* the value voxelIndex keeps although the write succeeded
FlushedIndexKept(index) == index

\* voxelIndex = 0 after a good write
FlushedIndex(index) == 0

\* the arguments handed to writer->write(VOXEL_BUFFER_32, voxelIndex)
Handed(buffer, index) == [i \in 1..index |-> buffer[i].pos]

\* flushBuffer (lines 277-285): the voxels handed over, the log entry and
\* voxelIndex afterwards; ok is the result of writer->write
FlushBuffer(buffer, index, ok, inLoop) ==
    [handed |-> Handed(buffer, index),
     entry |-> [size |-> index, inLoop |-> inLoop, ok |-> ok],
     index |-> IF ok THEN FlushedIndex(index) ELSE index]

\* main_impl up to the call of voxelize_obj (lines 317-351)
M_entry ==
    /\ mainPc = "entry"
    /\ IF ArgsAccepted(mainArgs)
       THEN mainPc' = "voxelize" /\ UNCHANGED mainReturn
       ELSE mainPc' = "returned" /\ mainReturn' = 1
    /\ UNCHANGED <<inputVars, driverVars, queueVars, workerVars, historyVars, sinkVars, ringVars,
                   splitVars, eventVars, clipVars, subVars, mainArgs, voxelized, weightedVoxels,
                   cvNext, voxelIndex, voxelCount, voxelBuffer, handed, flushLog, convertReturn>>

\* weightedVoxels = voxelize_obj(inFile, resolution, colorStrategy) (line 357):
\* voxelize_obj returns the map, or calls std::exit(1) when the model or a
\* texture cannot be loaded or a face has no vertex index, and then main_impl
\* never returns
M_voxelize ==
    /\ mainPc = "voxelize"
    /\ voxelized' = TRUE
    /\ IF mainArgs.meshLoads
       THEN weightedVoxels' = mainArgs.voxels /\ mainPc' = "convert"
       ELSE mainPc' = "exited" /\ UNCHANGED weightedVoxels
    /\ UNCHANGED <<inputVars, driverVars, queueVars, workerVars, historyVars, sinkVars, ringVars,
                   splitVars, eventVars, clipVars, subVars, mainArgs, mainReturn,
                   cvNext, voxelIndex, voxelCount, voxelBuffer, handed, flushLog, convertReturn>>

\* makeWriter(out, outFormat) has a writer for the type (lines 248-255)
WriterExists(outFormat) == outFormat \in {"QUBICLE_EXCHANGE", "VL32"}

\* convert_map_voxelio up to the loop (lines 257-275); makeWriter fails its
\* VXIO_ASSERT_UNREACHABLE for a file type without a writer
C_call ==
    /\ mainPc = "convert"
    /\ IF WriterExists(mainArgs.outType)
       THEN /\ voxelCount' = 0
            /\ voxelIndex' = 0
            /\ cvNext' = 1
            /\ mainPc' = "loop"
       ELSE /\ mainPc' = "asserted"
            /\ UNCHANGED <<voxelCount, voxelIndex, cvNext>>
    /\ UNCHANGED <<inputVars, driverVars, queueVars, workerVars, historyVars, sinkVars, ringVars,
                   splitVars, eventVars, clipVars, subVars, mainArgs, mainReturn, voxelized,
                   weightedVoxels, voxelBuffer, handed, flushLog, convertReturn>>

\* one turn of for (auto [pos, weightedColor] : map) (lines 287-303)
C_iterate ==
    /\ mainPc = "loop"
    /\ cvNext <= weightedVoxels
    /\ \E ok \in BOOLEAN :
        LET member == IF RequiresPalette(mainArgs.outType) THEN "index" ELSE "argb"
            stored == [voxelBuffer EXCEPT ![voxelIndex + 1] = BufferEntry(cvNext, member)]
            index == voxelIndex + 1
            flush == FlushBuffer(stored, index, ok, TRUE)
        IN  /\ voxelBuffer' = stored
            /\ voxelCount' = voxelCount + 1
            /\ IF index = VOXEL_BUFFER_32_SIZE
               THEN /\ handed' = handed \o flush.handed
                    /\ flushLog' = Append(flushLog, flush.entry)
                    /\ voxelIndex' = flush.index
                    /\ IF ok
                       THEN cvNext' = cvNext + 1 /\ UNCHANGED <<mainPc, convertReturn>>
                       ELSE mainPc' = "converted" /\ convertReturn' = 1 /\ UNCHANGED cvNext
               ELSE /\ voxelIndex' = index
                    /\ cvNext' = cvNext + 1
                    /\ UNCHANGED <<handed, flushLog, mainPc, convertReturn>>
    /\ UNCHANGED <<inputVars, driverVars, queueVars, workerVars, historyVars, sinkVars, ringVars,
                   splitVars, eventVars, clipVars, subVars, mainArgs, mainReturn, voxelized,
                   weightedVoxels>>

\* convert_map_voxelio after the loop (lines 305-314)
C_final ==
    /\ mainPc = "loop"
    /\ cvNext > weightedVoxels
    /\ \E ok \in BOOLEAN :
        LET flush == FlushBuffer(voxelBuffer, voxelIndex, ok, FALSE)
        IN  /\ handed' = handed \o flush.handed
            /\ flushLog' = Append(flushLog, flush.entry)
            /\ voxelIndex' = flush.index
            /\ convertReturn' = IF ok THEN 0 ELSE 1
    /\ mainPc' = "converted"
    /\ UNCHANGED <<inputVars, driverVars, queueVars, workerVars, historyVars, sinkVars, ringVars,
                   splitVars, eventVars, clipVars, subVars, mainArgs, mainReturn, voxelized,
                   weightedVoxels, cvNext, voxelCount, voxelBuffer>>

\* bool success = convert_map_voxelio(...); return not success (lines 376-378)
M_return ==
    /\ mainPc = "converted"
    /\ LET success == IntToBool(convertReturn)
       IN  mainReturn' = BoolToInt(~success)
    /\ mainPc' = "returned"
    /\ UNCHANGED <<inputVars, driverVars, queueVars, workerVars, historyVars, sinkVars, ringVars,
                   splitVars, eventVars, clipVars, subVars, mainArgs, voxelized, weightedVoxels,
                   cvNext, voxelIndex, voxelCount, voxelBuffer, handed, flushLog, convertReturn>>

NextMain ==
    \/ M_entry
    \/ M_voxelize
    \/ C_call
    \/ C_iterate
    \/ C_final
    \/ M_return

Driver ==
    \/ D_start
    \/ D_spawn
    \/ D_stream
    \/ D_issueInc
    \/ D_issuePush
    \/ D_waitVoxelized
    \/ D_mergeBegin
    \/ D_mergeScan
    \/ D_mergeIssued
    \/ D_mergeCheck
    \/ D_waitMerged
    \/ D_joinIssue
    \/ D_join
    \/ D_downscale
    \/ D_write

Worker(i) ==
    \/ W_receive(i)
    \/ W_run(i)
    \/ W_complete(i)

Next ==
    \/ Driver
    \/ \E i \in Workers : Worker(i)
    \/ Wakeup
    \/ SinkFails

\* every thread that can take a step eventually takes one; a wakeup without
\* notification is never owed
Fairness ==
    /\ WF_vars(Driver)
    /\ \A i \in 1..MaxThreads : WF_vars(i \in Workers /\ Worker(i))

(***************************************************************************)
(* The states in which mergeVoxelMaps is entered: every worker has         *)
(* voxelized at most one triangle (worker i the triangle that gave it      *)
(* voxels[i]), every command issued so far is completed, the workers are   *)
(* about to call receive().  These are the states voxelize reaches at      *)
(* line 238 for the stream made of the workers' triangles.                 *)
(***************************************************************************)
RECURSIVE BusyWorkers(_, _)
BusyWorkers(v, n) ==
    IF n = 0 THEN <<>>
    ELSE IF MapEmpty(v[n]) THEN BusyWorkers(v, n - 1)
    ELSE Append(BusyWorkers(v, n - 1), n)

DrainedQueue(cmds) ==
    [content |-> [k \in 0..(QueueCapacity - 1) |->
                     IF k \in 1..Len(cmds) THEN cmds[k] ELSE ExitCommand],
     r |-> Len(cmds) % QueueCapacity,
     w |-> Len(cmds) % QueueCapacity,
     avail |-> 0]

InitMerge ==
    /\ ValidArgs
    /\ threadCount \in 1..MaxMergeThreads
    /\ colorStrategy \in {"MAX", "BLEND"}
    /\ voxels \in [1..threadCount -> {EmptyMap, TriA, TriB}]
    /\ stream = [k \in 1..Len(BusyWorkers(voxels, threadCount)) |->
                    voxels[BusyWorkers(voxels, threadCount)[k]]]
    /\ vertexCount = IF stream = <<>> THEN 3 ELSE 3 * Len(stream)
    /\ dpc = "merge_begin"
    /\ nextTri = Len(stream)
    /\ dcmd = ExitCommand
    /\ dret = IF stream = <<>> THEN "start" ELSE "stream"
    /\ idx = threadCount
    /\ mergeTarget = 0
    /\ mergeSource = 0
    /\ commandsIssued = 0
    /\ result = EmptyMap
    /\ rb = DrainedQueue([k \in 1..Len(stream) |->
                             [VoxelizeCommand(stream[k]) EXCEPT !.id = k]])
    /\ count = 0
    /\ readWait = {}
    /\ writeWait = FALSE
    /\ countWait = FALSE
    /\ wpc = [i \in Workers |-> "receive"]
    /\ wcmd = [i \in Workers |-> ExitCommand]
    /\ looping = [i \in Workers |-> TRUE]
    /\ log = [k \in 1..Len(stream) |-> [recv |-> 1, exec |-> 1, comp |-> 1]]
    /\ failed = {}
    /\ mergeStart = voxels
    /\ passMaps = {}
    /\ exits = [i \in Workers |-> 0]
    /\ InitRingIdle
    /\ InitSplitIdle
    /\ InitOthersIdle

\* no pipeline runs and no object is used
InitQuiet ==
    /\ ValidArgs
    /\ threadCount = 0
    /\ stream = <<>>
    /\ vertexCount = 0
    /\ colorStrategy = "MAX"
    /\ InitPipeline
    /\ pending = {}
    /\ sinkCanWrite = TRUE
    /\ written = <<>>
    /\ flushes = 0
    /\ returned = "none"
    /\ ringPushed = <<>>
    /\ ringPopped = <<>>
    /\ ringPeeked = <<>>
    /\ InitSplitIdle
    /\ InitClipIdle
    /\ InitSubIdle
    /\ InitMainIdle

\* the values tried for an int that was never initialised
IndeterminateInts == {-1, 0, 1}

\* a RingBuffer<int, RingN> after its defaulted constructor: r, w and avail
\* are 0 and content is value-initialised (all 0, as in RingBuffer b{}) or
\* default-initialised (indeterminate, as in RingBuffer b;)
NewRingBuffers ==
    {[RingBufferNew(RingN, 0) EXCEPT !.content = c] : c \in [0..(RingN - 1) -> IndeterminateInts]}

\* no pipeline runs: the ring buffer alone
InitRing ==
    /\ InitQuiet
    /\ InitEventIdle
    /\ ring \in NewRingBuffers

\* no pipeline runs: an Event alone, constructed untriggered or triggered
InitEventAlone ==
    /\ InitQuiet
    /\ InitEvent
    /\ ring = RingBufferNew(RingN, 0)

\* the distances from the plane tried for a vertex, in units of EPSILON / 2:
\* off the plane by FarOffset, at EPSILON exactly, inside EPSILON, on the plane
AxisOffsets == {-FarOffset, -EpsilonUnits, -1, 0, 1, EpsilonUnits, FarOffset}

\* vertex i of the input: at offset d[i] from the plane along the axis, at a
\* place of its own in the two other coordinates
InputVertex(axis, plane, i, d) ==
    [c \in 1..3 |->
        IF c = axis + 1 THEN Real(plane * UnitsPerVoxel + d)
        ELSE IF c = ((axis + 1) % 3) + 1 THEN Real(IF i = 1 THEN 4 ELSE 0)
        ELSE Real(IF i = 2 THEN 4 ELSE 0)]

InputTriangle(axis, plane, ds) ==
    TexturedTriangle([i \in 1..3 |-> InputVertex(axis, plane, i - 1, ds[i])],
                     <<<<Real(0), Real(0)>>, <<Real(6), Real(0)>>, <<Real(0), Real(6)>>>>)

\* a triangle the vectors may hold before the call
OldTriangle == InputTriangle(0, 0, <<0, 0, 0>>)

\* a call of splitTriangle: any axis, a plane, the triangles above, outLo and
\* outHi two vectors or one and the same, empty or not
InitSplit ==
    /\ ValidArgs
    /\ threadCount = 0
    /\ stream = <<>>
    /\ vertexCount = 0
    /\ colorStrategy = "MAX"
    /\ InitPipeline
    /\ InitRingIdle
    /\ splitPc = "ready"
    /\ splitMode = "NONE"
    /\ splitOut = Outputs(<<>>, <<>>, FALSE)
    /\ InitOthersIdle
    /\ \E axis \in 0..2, plane \in 0..MaxPlane, ds \in [1..3 -> AxisOffsets],
          aliased \in BOOLEAN, before \in {<<>>, <<OldTriangle>>} :
            splitIn = [axis |-> axis, plane |-> plane, t |-> InputTriangle(axis, plane, ds),
                       out |-> Outputs(before, before, aliased)]

\* a point of the plane at height c along the axis normal, at (u, v) in the
\* two other axes; all in quarters of a voxel
PlanePoint(normal, c, u, v) ==
    [k \in 1..3 |->
        Real((UnitsPerVoxel \div 4) *
             (IF k = normal + 1 THEN c ELSE IF k = ((normal + 1) % 3) + 1 THEN u ELSE v))]

\* the triangle (0,0), (2,0), (0,2) of the plane, in voxels
WideTriangle(normal, c) ==
    TexturedTriangle(<<PlanePoint(normal, c, 0, 0), PlanePoint(normal, c, 8, 0),
                       PlanePoint(normal, c, 0, 8)>>,
                     <<<<Real(0), Real(0)>>, <<Real(6), Real(0)>>, <<Real(0), Real(6)>>>>)

\* a triangle inside the cell at the origin: (1/4,1/4), (3/4,1/4), (1/4,3/4)
SmallTriangle(normal, c) ==
    TexturedTriangle(<<PlanePoint(normal, c, 1, 1), PlanePoint(normal, c, 3, 1),
                       PlanePoint(normal, c, 1, 3)>>,
                     <<<<Real(0), Real(0)>>, <<Real(6), Real(0)>>, <<Real(0), Real(6)>>>>)

\* the cells visited: from a first cell on along x, as the innermost loop goes
CellRuns ==
    {[k \in 1..n |-> <<x + k - 1, y, z>>] :
        x \in 0..MaxCell, y \in 0..MaxCell, z \in 0..MaxCell, n \in 1..MaxClipCells}

\* voxelizeSubTriangle reaches line 385 for the first cell: both buffers empty
\* (voxelize clears them), a sub-triangle that is the input triangle or one
\* of the quarters of a subdivision of it
InitClip ==
    /\ ValidArgs
    /\ threadCount = 0
    /\ stream = <<>>
    /\ vertexCount = 0
    /\ colorStrategy = "MAX"
    /\ InitPipeline
    /\ InitRingIdle
    /\ InitSplitIdle
    /\ InitEventIdle
    /\ InitSubIdle
    /\ InitMainIdle
    /\ clipPc = "call"
    /\ clipBuffers = Buffers("a", <<>>, <<>>)
    /\ clipCut = 0
    /\ clipCuts = <<>>
    /\ clipResult = [weight |-> Real(0), samples |-> <<>>, fragments |-> <<>>, path |-> "none"]
    /\ clipOut = <<>>
    /\ \E normal \in 0..2, c \in {0, 2}, wide \in BOOLEAN, quarter \in BOOLEAN, cells \in CellRuns :
        LET t == IF wide THEN WideTriangle(normal, c) ELSE SmallTriangle(normal, c)
        IN  clipIn = [t |-> t,
                      area |-> IF quarter THEN RMul(Real(4), Area(t)) ELSE Area(t),
                      cells |-> cells,
                      next |-> 1]

\* the triangle with its vertices on the axes at a, b and c voxels
InterceptTriangle(a, b, c) ==
    TexturedTriangle(<<<<Real(a * UnitsPerVoxel), Real(0), Real(0)>>,
                       <<Real(0), Real(b * UnitsPerVoxel), Real(0)>>,
                       <<Real(0), Real(0), Real(c * UnitsPerVoxel)>>>>,
                     <<<<Real(0), Real(0)>>, <<Real(6), Real(0)>>, <<Real(0), Real(6)>>>>)

\* the extents tried: boxes below the limit, boxes to be subdivided up to
\* three times, a flat box, and a box of 2^32 cells at resolution 2048
SubExtents ==
    {<<a, b, c>> : a \in {4, 8, 16, 32}, b \in {8, 16, 32}, c \in {8, 16, 32}}
        \cup {<<64, 64, 1>>, <<2048, 2048, 1024>>}

\* a call of subdivideLargeVolumeTriangles with out empty
InitSub ==
    /\ ValidArgs
    /\ threadCount = 0
    /\ stream = <<>>
    /\ vertexCount = 0
    /\ colorStrategy = "MAX"
    /\ InitPipeline
    /\ InitRingIdle
    /\ InitSplitIdle
    /\ InitEventIdle
    /\ InitClipIdle
    /\ InitMainIdle
    /\ subPc = "call"
    /\ subOut = <<>>
    /\ subI = 0
    /\ subSteps = 0
    /\ \E e \in SubExtents : subIn = InterceptTriangle(e[1], e[2], e[3])

\* the sizes of the map tried: empty, one voxel, one below the capacity of
\* the buffer, the capacity, one above, and one above twice the capacity
MapSizes ==
    {0, 1, VOXEL_BUFFER_32_SIZE - 1, VOXEL_BUFFER_32_SIZE, VOXEL_BUFFER_32_SIZE + 1,
     2 * VOXEL_BUFFER_32_SIZE + 1}

\* the arguments of main_impl, by what the checks make of them, and the
\* number of voxels voxelize_obj yields for the input file
MainArgs ==
    [inFileEmpty : BOOLEAN,
     outType : {"none", "QUBICLE_EXCHANGE", "VL32", "OTHER"},
     openOk : BOOLEAN,
     resolutionOk : BOOLEAN,
     colorStratStr : {"max", "BLEND", "cubic"},
     meshLoads : BOOLEAN,
     voxels : MapSizes]

\* a call of main_impl
InitMain ==
    /\ ValidArgs
    /\ threadCount = 0
    /\ stream = <<>>
    /\ vertexCount = 0
    /\ colorStrategy = "MAX"
    /\ InitPipeline
    /\ InitRingIdle
    /\ InitSplitIdle
    /\ InitEventIdle
    /\ InitClipIdle
    /\ InitSubIdle
    /\ mainPc = "entry"
    /\ mainArgs \in MainArgs
    /\ mainReturn = -1
    /\ voxelized = FALSE
    /\ weightedVoxels = 0
    /\ cvNext = 0
    /\ voxelIndex = 0
    /\ voxelCount = 0
    /\ voxelBuffer = ZeroBuffer
    /\ handed = <<>>
    /\ flushLog = <<>>
    /\ convertReturn = -1

Spec == Init /\ [][Next]_vars

\* one call of main_impl
SpecMain == InitMain /\ [][NextMain]_vars

\* one call of subdivideLargeVolumeTriangles
SpecSub == InitSub /\ [][NextSub]_vars

\* calls of voxelizeVoxel for the cells of one sub-triangle
SpecClip == InitClip /\ [][NextClip]_vars

SpecSplit == InitSplit /\ [][NextSplit]_vars

SpecAll == (Init \/ InitLong) /\ [][Next]_vars

SpecRing == InitRing /\ [][NextRing]_vars

\* the Event alone, the pipeline not started
SpecEvent == InitEventAlone /\ [][NextEvent]_vars

SpecRound == (Init \/ InitRound) /\ [][Next]_vars

SpecArgs == InitArgs /\ [][Next]_vars

\* mergeVoxelMaps alone: the call, from its entry to its return, and the workers
MergeDriver ==
    \/ D_issueInc
    \/ D_issuePush
    \/ D_mergeBegin
    \/ D_mergeScan
    \/ D_mergeIssued
    \/ D_mergeCheck
    \/ D_waitMerged

NextMerge ==
    \/ MergeDriver
    \/ \E i \in Workers : Worker(i)
    \/ Wakeup

SpecMerge == InitMerge /\ [][NextMerge]_vars

FairSpecAll == (Init \/ InitLong) /\ [][Next]_vars /\ Fairness

(***************************************************************************)
(* Properties                                                              *)
(***************************************************************************)
\* the commands held by the queue
Queued == {RB_elements(rb, QueueCapacity)[k] : k \in 1..RB_size(rb)}

\* the workers that have received a command and not yet called complete()
Busy == {i \in Workers : wpc[i] \in {"run", "complete"}}

\* the commands issued (counted) and not yet completed
InFlight ==
    Queued \cup {wcmd[i] : i \in Busy} \cup (IF dpc = "issue_push" THEN {dcmd} ELSE {})

MapsNamed(c) == IF c.type = "MERGE_MAPS" THEN {c.target, c.source} ELSE {}

\* the maps worker i touches while it runs its command
MapsAccessed(i) == IF wcmd[i].type = "VOXELIZE_TRIANGLE" THEN {i} ELSE MapsNamed(wcmd[i])

NoSharedAccess ==
    \A i, j \in Workers :
        (i # j /\ wpc[i] = "run" /\ wpc[j] = "run") => MapsAccessed(i) \cap MapsAccessed(j) = {}

AllCompleted == \A id \in 1..Len(log) : log[id].exec = 1 /\ log[id].comp = 1

\* C1: whenever waitForCompletion() returns, every command issued before the call
\* has been run by a worker that then called complete(); in particular no worker
\* still holds a popped command, whether or not the queue is empty.
C1_CompletionMeansAllExecuted ==
    dpc = "merge_begin" => (AllCompleted /\ Busy = {} /\ RB_empty(rb))

\* waitForCompletion() has returned after a merge pass that issued commands
C1_Witness ==
    /\ dpc = "merge_begin"
    /\ commandsIssued > 0
    /\ Len(log) > Len(stream)
    /\ Len(stream) >= 2

\* C2: during the merge phase the MERGE_MAPS commands queued or being executed
\* name pairwise disjoint maps, and no two workers run commands that touch the
\* same map.
C2_InFlightMergesDisjoint ==
    /\ \A c1, c2 \in InFlight : c1 # c2 => MapsNamed(c1) \cap MapsNamed(c2) = {}
    /\ NoSharedAccess

\* two workers run MERGE_MAPS commands at the same time
C2_Witness ==
    \E i, j \in Workers :
        /\ i # j
        /\ wpc[i] = "run" /\ wcmd[i].type = "MERGE_MAPS"
        /\ wpc[j] = "run" /\ wcmd[j].type = "MERGE_MAPS"

MergeBeingIssued == dpc \in {"issue_inc", "issue_push"} /\ dcmd.type = "MERGE_MAPS"

\* C3: no MERGE_MAPS command is being issued or in flight while a
\* VOXELIZE_TRIANGLE command is queued or held by a worker, and while
\* VOXELIZE_TRIANGLE commands run no map is touched by two workers.
C3_PhaseBarrier ==
    /\ (MergeBeingIssued \/ \E c \in InFlight : c.type = "MERGE_MAPS")
          => \A c \in Queued \cup {wcmd[i] : i \in Busy} : c.type # "VOXELIZE_TRIANGLE"
    /\ NoSharedAccess

\* a MERGE_MAPS command is issued after a stream of triangles has been voxelized
\* by several workers
C3_Witness ==
    /\ MergeBeingIssued
    /\ Len(stream) >= 2
    /\ \A id \in 1..Len(stream) : log[id].comp = 1

InMerge == dpc \in {"merge_begin", "merge_scan", "merge_issued", "merge_check", "merge_wait"}
              \/ (dpc \in {"issue_inc", "issue_push"} /\ dcmd.type = "MERGE_MAPS")

\* the maps named by a MERGE_MAPS command that is queued or held by a worker
MapsInMerge == UNION {MapsNamed(c) : c \in Queued \cup {wcmd[i] : i \in Busy}}

C4_Conserved ==
    dpc = "join_issue" =>
        /\ Positions(result) = UNION {Positions(mergeStart[i]) : i \in Workers}
        /\ ((\A i \in Workers : MapEmpty(mergeStart[i])) => result = EmptyMap)

C4_UnpairedCarried ==
    \A i \in Workers :
        (InMerge /\ i \notin MapsInMerge /\ ~(dpc = "merge_check" /\ dpc' = "join_issue"))
            => voxels'[i] = voxels[i]

Joined == dpc \in {"downscale", "write"} \/ (dpc = "done" /\ vertexCount # 0)

\* C5: with at least one worker and fair scheduling of the threads the driver
\* eventually finishes the voxelization phase, the merge phase and the join.
C5_DriverTerminates == (threadCount >= 1) => <>(Joined \/ dpc = "done")

\* a stream longer than the queue has been voxelized, merged and joined
C5_Witness == dpc = "downscale" /\ Len(stream) > QueueCapacity /\ Len(log) > Len(stream)

Holders(id) == {i \in Busy : wcmd[i].id = id}

RECURSIVE Received(_, _)
Received(l, n) == IF n = 0 THEN 0 ELSE l[n].recv + Received(l, n - 1)

\* C6: every issued command is at any time in exactly one place: being pushed or
\* in exactly one slot of the queue (not yet received), held by exactly one
\* worker (received once, with the payload it was issued with), or completed; it
\* is executed at most once, and exactly once when the driver is done.
C6_ExactlyOnce ==
    LET received == Received(log, Len(log))
        issuing == IF dpc = "issue_push" THEN 1 ELSE 0
        queued == RB_elements(rb, QueueCapacity)
    IN  /\ \A id \in 1..Len(log) :
            /\ log[id].recv = (IF id <= received THEN 1 ELSE 0)
            /\ log[id].exec <= log[id].recv /\ log[id].comp <= log[id].exec
            /\ Cardinality(Holders(id)) = log[id].recv - log[id].comp
        /\ \A k \in 1..RB_size(rb) : queued[k].id = received + k
        /\ Len(log) = received + RB_size(rb) + issuing
        /\ dpc = "issue_push" => dcmd.id = Len(log)
        /\ \A i \in Busy :
            /\ wcmd[i].id \in 1..Len(log)
            /\ wcmd[i].id <= Len(stream) =>
                  wcmd[i] = [VoxelizeCommand(stream[wcmd[i].id]) EXCEPT !.id = wcmd[i].id]
        /\ (Joined \/ dpc = "done") => \A id \in 1..Len(log) : log[id].exec = 1

\* two workers hold commands at once while a third command waits in the queue
C6_Witness ==
    /\ Cardinality(Busy) >= 2
    /\ RB_size(rb) >= 1
    /\ \E id \in 1..Len(log) : log[id].comp = 1

\* C7: a worker has left its loop only if it received an EXIT; no worker receives
\* two; when joinWorkers has returned every worker has received exactly one EXIT
\* and has terminated, the queue is empty and the counter is zero.
C7_ExitProtocol ==
    /\ \A i \in Workers :
        /\ exits[i] <= 1
        /\ (wpc[i] = "exited" \/ ~looping[i]) => exits[i] = 1
    /\ Joined =>
        /\ \A i \in Workers : exits[i] = 1 /\ wpc[i] = "exited"
        /\ RB_empty(rb)
        /\ count = 0

\* joinWorkers has returned for three workers
C7_Witness ==
    /\ dpc = "downscale"
    /\ threadCount = 3
    /\ \A i \in Workers : wpc[i] = "exited" /\ exits[i] = 1

\* C8: the element count stays within 0..128 and neither ring buffer assertion
\* fails: push completes only below 128 elements, pop only above 0.
C8_BoundedQueue ==
    /\ RB_size(rb) \in 0..QueueCapacity
    /\ "ring_overflow" \notin failed
    /\ "ring_underflow" \notin failed

\* the queue holds 128 commands and the driver is blocked in push
C8_Witness == RB_full(rb, QueueCapacity) /\ writeWait /\ dpc = "issue_push"

\* C9: the values popped are the values pushed, in the order of the pushes, and
\* the buffer holds the values pushed and not yet popped, oldest first.
C9_Fifo ==
    /\ Len(ringPopped) <= Len(ringPushed)
    /\ ringPopped = SubSeq(ringPushed, 1, Len(ringPopped))
    /\ RB_elements(ring, RingN) = SubSeq(ringPushed, Len(ringPopped) + 1, Len(ringPushed))

\* r and w have wrapped around and the pops returned two different values
C9_Witness ==
    /\ Len(ringPopped) > RingN
    /\ ring.r < Len(ringPopped)
    /\ \E j, k \in 1..Len(ringPopped) : ringPopped[j] # ringPopped[k]

RECURSIVE Completed(_, _)
Completed(l, n) == IF n = 0 THEN 0 ELSE l[n].comp + Completed(l, n - 1)

\* C10: the counter is the number of commands issued minus the number completed,
\* it is at least the number of commands in the queue plus the number held by
\* workers, and it is never decremented at zero.
C10_CounterAccounting ==
    /\ count = Len(log) - Completed(log, Len(log))
    /\ count >= RB_size(rb) + Cardinality(Busy)
    /\ count >= 0
    /\ "counter_wrap" \notin failed

\* the counter covers a queued command, one held by a worker and one being pushed
C10_Witness ==
    /\ dpc = "issue_push"
    /\ Cardinality(Busy) >= 1
    /\ RB_size(rb) >= 1
    /\ count = RB_size(rb) + Cardinality(Busy) + 1

(***************************************************************************)
(* Merge determinism                                                       *)
(***************************************************************************)
\* the map one worker builds when it voxelizes the first n triangles of the
\* stream in order: the result of the schedule in which one worker receives
\* every command
RECURSIVE SequentialFold(_, _)
SequentialFold(strategy, n) ==
    IF n = 0 THEN EmptyMap
    ELSE VoxelizeInto(strategy, SequentialFold(strategy, n - 1), stream[n])

\* the contributions of the triangles of the stream to cell p
Contributions(p) == {stream[k][p] : k \in {j \in 1..Len(stream) : p \in DOMAIN stream[j]}}

\* mergeVoxelMaps has returned and result has not been downscaled
Merged == dpc \in {"join_issue", "join", "downscale"} \/ (dpc \in {"issue_inc", "issue_push"} /\ dret = "join_issue")

Reference == SequentialFold(colorStrategy, Len(stream))

MaxDeterministic ==
    /\ DOMAIN result = DOMAIN Reference
    /\ \A p \in DOMAIN result :
        /\ result[p].weight = Reference[p].weight
        /\ \E c \in Contributions(p) : c.weight = result[p].weight /\ c.value = result[p].value
        /\ (\A c, d \in Contributions(p) : (c # d) => c.weight # d.weight) => result[p] = Reference[p]

\* C11: for a fixed set of contributions the merged map does not depend on
\* which worker voxelized which triangle, on the order in which the workers
\* pop commands, or on the maps the tournament pairs.  Under BLEND the weight
\* and the color of every cell are the same in every schedule, so they are
\* those of the schedule in which one worker voxelizes the whole stream;
\* under MAX the weight of every cell is, and the color can differ only for
\* cells where two contributions tie on weight.
C11_MergeDeterminism ==
    Merged => IF colorStrategy = "BLEND" THEN result = Reference ELSE MaxDeterministic

\* under BLEND three triangles, of which one covers a cell the others do
\* not, were voxelized by two workers and their maps merged
C11_Witness ==
    /\ Merged
    /\ colorStrategy = "BLEND"
    /\ stream = <<TriB, TriD, TriBig>>
    /\ \A i \in Workers : ~MapEmpty(mergeStart[i])
    /\ threadCount = 2
    /\ DOMAIN result = {Cell1, Cell2, Cell3}

(***************************************************************************)
(* The output loop                                                         *)
(***************************************************************************)
\* C12: voxelize returns true only if every voxel of the final map was written
\* and the sink is still writable when the output ends, an error that surfaces
\* after the last write included; and every worker has been joined when the
\* output loop runs.
C12_SinkFailure ==
    /\ (returned = "true" /\ vertexCount # 0) => pending = {}
    /\ (returned = "true" /\ written # <<>>) => sinkCanWrite
    /\ (returned = "false") => ~sinkCanWrite
    /\ (dpc = "write") => \A i \in Workers : wpc[i] = "exited"

\* the part of C12 about the loop itself: once canWrite() is false no voxel is written
C12_NoWriteAfterFailure == [][~sinkCanWrite => written' = written]_vars

\* C13: for a stream of zero vertices voxelize calls sink.flush() once and
\* returns true; no worker is started, no command issued, no voxel written.
C13_EmptyMesh ==
    (vertexCount = 0 /\ dpc # "start") =>
        /\ dpc = "done"
        /\ flushes = 1
        /\ returned = "true"
        /\ \A i \in Workers : wpc[i] = "unborn"
        /\ log = <<>> /\ count = 0 /\ RB_empty(rb)
        /\ written = <<>>

\* voxelize has returned for a stream of zero vertices on a machine with three threads
C13_Witness == vertexCount = 0 /\ dpc = "done" /\ threadCount = 3 /\ flushes = 1

(***************************************************************************)
(* Invalid configuration                                                   *)
(***************************************************************************)
IsPermutation(p) == {p[1], p[2], p[3]} = {0, 1, 2}

InvalidArgs == resolution = 0 \/ ~IsPermutation(permutation)

\* C14: with args.resolution = 0 or args.permutation not a permutation of
\* (0,1,2), voxelize starts no worker thread and does not return true.
C14_InvalidConfiguration ==
    InvalidArgs => ((\A i \in Workers : wpc[i] = "unborn") /\ returned # "true")

(***************************************************************************)
(* The MERGE_MAPS command                                                  *)
(***************************************************************************)
\* C15: a MERGE_MAPS command that mergeVoxelMaps is issuing names two different
\* non-empty maps, the target has at least as many cells as the source, and of
\* two maps of the same size the one of the worker scanned first is the target;
\* the assertion target != source of the constructor never fails.
C15_LargerMapIsTarget ==
    /\ MergeBeingIssued =>
        /\ dcmd.target # dcmd.source
        /\ dcmd.target \in Workers /\ dcmd.source \in Workers
        /\ ~MapEmpty(voxels[dcmd.target]) /\ ~MapEmpty(voxels[dcmd.source])
        /\ MapSize(voxels[dcmd.target]) >= MapSize(voxels[dcmd.source])
        /\ (MapSize(voxels[dcmd.target]) = MapSize(voxels[dcmd.source])) => dcmd.target < dcmd.source
    /\ "merge_same_map" \notin failed

\* the map scanned second is larger and has become the target
C15_Witness ==
    /\ MergeBeingIssued
    /\ dcmd.target > dcmd.source
    /\ MapSize(voxels[dcmd.target]) > MapSize(voxels[dcmd.source])

\* worker i runs the MERGE_MAPS command it holds
RunsMerge(i) == wpc[i] = "run" /\ wpc'[i] = "complete" /\ wcmd[i].type = "MERGE_MAPS"

MergeEffect(i) ==
    LET t == wcmd[i].target
        s == wcmd[i].source
    IN  /\ voxels'[s] = EmptyMap
        /\ Positions(voxels'[t]) = Positions(voxels[t]) \cup Positions(voxels[s])
        /\ \A j \in Workers \ {t, s} : voxels'[j] = voxels[j]

SplitCallDone(mode) == splitPc = "done" /\ splitMode = mode

\* the classes of the specification: a vertex is planar iff |v[a] - k| <
\* epsilon, otherwise lo iff v[a] <= k, otherwise hi
PlanarSet ==
    {i \in 0..2 : RLess(RAbs(RSub(Vertex(splitIn.t, i)[splitIn.axis + 1],
                                  PlaneReal(splitIn.plane))), EPSILON)}

LoSet ==
    {i \in (0..2) \ PlanarSet :
        RLeq(Vertex(splitIn.t, i)[splitIn.axis + 1], PlaneReal(splitIn.plane))}

HiSet == ((0..2) \ PlanarSet) \ LoSet

\* what the call appended to a vector that held before
AppendedTo(vector, before) == SubSeq(vector, Len(before) + 1, Len(vector))

\* the triangles of a sequence of pushes
TrianglesOf(pushes) == [i \in 1..Len(pushes) |-> pushes[i].t]

PushedLo(p) == p.lo

PushedHi(p) == ~p.lo

\* the call appended exactly the triangles los to outLo and his to outHi
AppendedExactly(los, his) ==
    /\ TrianglesOf(SelectSeq(splitOut.pushes, PushedLo)) = los
    /\ TrianglesOf(SelectSeq(splitOut.pushes, PushedHi)) = his
    /\ ~splitIn.out.aliased =>
        /\ splitOut.lo = splitIn.out.lo \o los
        /\ splitOut.hi = splitIn.out.hi \o his

\* C17: in mode NONE, when all three vertices are planar or all non-planar
\* vertices are lo, the unchanged triangle is appended to lo and nothing to
\* hi; when there is a non-planar vertex and all non-planar vertices are hi,
\* the unchanged triangle is appended to hi and nothing to lo, whatever side
\* of the plane the planar vertices lie on.
C17_RoutingWithoutCut ==
    SplitCallDone("NONE") =>
        /\ HiSet = {} => AppendedExactly(<<splitIn.t>>, <<>>)
        /\ (HiSet # {} /\ LoSet = {}) => AppendedExactly(<<>>, <<splitIn.t>>)

\* two planar vertices, one of them above the plane, and the third vertex
\* clearly below it
C17_Witness ==
    /\ SplitCallDone("NONE")
    /\ Cardinality(PlanarSet) = 2
    /\ Cardinality(LoSet) = 1
    /\ \E i \in PlanarSet :
        RLess(PlaneReal(splitIn.plane), Vertex(splitIn.t, i)[splitIn.axis + 1])
    /\ splitOut.pushes # <<>>

Points(t) == {t.v[i] : i \in 1..3}

InputPoints == Points(splitIn.t)

\* the points of a fragment that are no vertex of the input
NewPoints(t) == Points(t) \ InputPoints

\* the parameter of the plane on the edge from vertex i to vertex j:
\* t = (o[a] - k) / (-d[a])
EdgeParameter(i, j) ==
    RDiv(RSub(Vertex(splitIn.t, i)[splitIn.axis + 1], PlaneReal(splitIn.plane)),
         RSub(Vertex(splitIn.t, i)[splitIn.axis + 1], Vertex(splitIn.t, j)[splitIn.axis + 1]))

\* corner c of fragment f is a vertex of the input with its own texture
\* coordinate, or lies on an edge of the input with position and texture
\* coordinate mixed by one and the same parameter
CornerInterpolated(f, c) ==
    \/ \E i \in 0..2 : f.v[c] = Vertex(splitIn.t, i) /\ f.uv[c] = Texture(splitIn.t, i)
    \/ \E i, j \in 0..2 :
        /\ Vertex(splitIn.t, i)[splitIn.axis + 1] # Vertex(splitIn.t, j)[splitIn.axis + 1]
        /\ f.v[c] = Mix(Vertex(splitIn.t, i), Vertex(splitIn.t, j), EdgeParameter(i, j))
        /\ f.uv[c] = Mix(Texture(splitIn.t, i), Texture(splitIn.t, j), EdgeParameter(i, j))

\* C18: in mode NONE a call emits exactly 1 triangle when no cut is needed,
\* exactly 2 (one to lo, one to hi, sharing the planar vertex and the one
\* intersection point) when one vertex is planar and the two others are on
\* opposite sides, exactly 3 (one on the isolated vertex's side, two on the
\* other side sharing an intersection point) when no vertex is planar and the
\* plane separates the vertices; never more than 3; and the texture
\* coordinate of every intersection point is mixed with the parameter of its
\* position.
C18_OutputCount ==
    SplitCallDone("NONE") =>
        LET pushes == splitOut.pushes
            los == TrianglesOf(SelectSeq(pushes, PushedLo))
            his == TrianglesOf(SelectSeq(pushes, PushedHi))
        IN  /\ Len(pushes) <= 3
            /\ (LoSet = {} \/ HiSet = {}) => Len(pushes) = 1
            /\ (Cardinality(PlanarSet) = 1 /\ LoSet # {} /\ HiSet # {}) =>
                /\ Len(los) = 1 /\ Len(his) = 1
                /\ \A i \in PlanarSet :
                    Vertex(splitIn.t, i) \in Points(los[1]) \cap Points(his[1])
                /\ Cardinality(NewPoints(los[1]) \cup NewPoints(his[1])) = 1
                /\ NewPoints(los[1]) = NewPoints(his[1])
            /\ (PlanarSet = {} /\ LoSet # {} /\ HiSet # {}) =>
                LET isolatedSide == IF Cardinality(LoSet) = 1 THEN los ELSE his
                    otherSide == IF Cardinality(LoSet) = 1 THEN his ELSE los
                    isolated == IF Cardinality(LoSet) = 1 THEN LoSet ELSE HiSet
                IN  /\ Len(isolatedSide) = 1 /\ Len(otherSide) = 2
                    /\ \A i \in isolated : Vertex(splitIn.t, i) \in Points(isolatedSide[1])
                    /\ Cardinality(NewPoints(isolatedSide[1])) = 2
                    /\ NewPoints(otherSide[1]) \cap NewPoints(otherSide[2]) # {}
                    /\ NewPoints(otherSide[1]) \cup NewPoints(otherSide[2])
                           = NewPoints(isolatedSide[1])
            /\ \A p \in 1..Len(pushes) : \A c \in 1..3 : CornerInterpolated(pushes[p].t, c)
            /\ ~splitIn.out.aliased =>
                /\ splitOut.lo = splitIn.out.lo \o los
                /\ splitOut.hi = splitIn.out.hi \o his

\* three triangles were emitted, and the two edges were cut at different
\* parameters
C18_Witness ==
    /\ SplitCallDone("NONE")
    /\ Len(splitOut.pushes) = 3
    /\ PlanarSet = {}
    /\ \E i, j, k \in 0..2 :
        /\ i # j /\ j # k /\ i # k
        /\ (LoSet = {i} \/ HiSet = {i})
        /\ EdgeParameter(i, j) # EdgeParameter(i, k)

\* the intersection tests of the call: parameter and denominator
IntersectionTests ==
    LET rays == IntersectionRays(splitIn.axis, splitIn.plane, splitIn.t)
    IN  {[t |-> IntersectRayAxisPlane(rays[r].org, rays[r].dir, splitIn.axis, splitIn.plane),
          d |-> RNeg(rays[r].dir[splitIn.axis + 1])] : r \in 1..Len(rays)}

\* C19: in mode NONE every vertex v of every fragment appended to lo has
\* v[a] <= k + epsilon and every vertex of every fragment appended to hi has
\* v[a] >= k - epsilon; in the cutting cases the intersection parameter lies
\* in [0, 1] and the fallback for a denominator within epsilon of zero is not
\* taken.
C19_SideContainment ==
    SplitCallDone("NONE") =>
        /\ \A p \in 1..Len(splitOut.pushes) : \A c \in 1..3 :
            LET x == splitOut.pushes[p].t.v[c][splitIn.axis + 1]
            IN  IF splitOut.pushes[p].lo
                THEN RLeq(x, RAdd(PlaneReal(splitIn.plane), EPSILON))
                ELSE RLeq(RSub(PlaneReal(splitIn.plane), EPSILON), x)
        /\ (LoSet # {} /\ HiSet # {}) => IntersectionTests # {}
        /\ \A test \in IntersectionTests :
            /\ ~IsZero(test.d)
            /\ RLeq(Real(0), test.t)
            /\ RLeq(test.t, Real(1))

\* a cut was made next to a planar vertex that lies on the other side of the
\* plane than the fragment it became a corner of
C19_Witness ==
    /\ SplitCallDone("NONE")
    /\ IntersectionTests # {}
    /\ \E p \in 1..Len(splitOut.pushes) : \E c \in 1..3 :
        /\ splitOut.pushes[p].lo
        /\ RLess(PlaneReal(splitIn.plane), splitOut.pushes[p].t.v[c][splitIn.axis + 1])

\* what mode NONE does with the input of the call
NoneOutput ==
    SplitTriangle("NONE", splitIn.axis, splitIn.plane, splitIn.t, splitIn.out)

\* C20: for every input, mode DISCARD_LO appends nothing to outLo and appends
\* to outHi exactly the triangles mode NONE appends to outHi, and mode
\* DISCARD_HI appends nothing to outHi and appends to outLo exactly the
\* triangles mode NONE appends to outLo; also when outLo and outHi are one
\* and the same vector, which then receives exactly those triangles.
C20_DiscardIsFilter ==
    /\ SplitCallDone("DISCARD_LO") =>
        LET kept == TrianglesOf(SelectSeq(NoneOutput.pushes, PushedHi))
        IN  /\ AppendedExactly(<<>>, kept)
            /\ splitIn.out.aliased =>
                /\ splitOut.hi = splitIn.out.hi \o kept
                /\ splitOut.lo = splitOut.hi
    /\ SplitCallDone("DISCARD_HI") =>
        LET kept == TrianglesOf(SelectSeq(NoneOutput.pushes, PushedLo))
        IN  /\ AppendedExactly(kept, <<>>)
            /\ splitIn.out.aliased =>
                /\ splitOut.lo = splitIn.out.lo \o kept
                /\ splitOut.hi = splitOut.lo

\* a cut into three with the lo side discarded, outLo and outHi one vector
\* that held a triangle before
C20_Witness ==
    /\ SplitCallDone("DISCARD_LO")
    /\ splitIn.out.aliased
    /\ splitIn.out.hi # <<>>
    /\ Len(NoneOutput.pushes) = 3
    /\ Len(splitOut.pushes) \in 1..2
    /\ Len(splitOut.hi) = Len(splitIn.out.hi) + Len(splitOut.pushes)

(***************************************************************************)
(* RingBuffer::peek                                                        *)
(***************************************************************************)
\* C26: on a non-empty buffer peek() returns the least recently pushed element
\* still in the buffer, which is the element the next pop() returns, and
\* leaves r, w and avail as they are.
C26_PeekIsNextPop ==
    ringPeeked # <<>> =>
        /\ ringPeeked[1] = RB_popValue(ring, RingN)
        /\ ringPeeked[1] = ringPushed[Len(ringPopped) + 1]

\* a call of peek() changes nothing in the buffer
C26_PeekLeavesBuffer == [][ringPeeked' # <<>> => ring' = ring]_vars

(***************************************************************************)
(* async::Event                                                            *)
(***************************************************************************)
\* thread t is inside wait()
InWait(t) == evPc[t] \in {"waiting", "notified", "woken"}

\* C27: once trigger() has been called, every wait() that starts before the
\* next reset() returns at once without blocking, and one trigger() unblocks
\* all threads that were blocked in wait() at that moment; after reset(),
\* wait() blocks again.
C27_EventPermanence ==
    /\ [](evTriggers > 0 => evFlag)
    /\ [](evTriggers > 0 => \A t \in EventThreads : evPc[t] # "waiting")
    /\ [][(evTriggers > 0 /\ evTriggers' = 0) => ~evFlag']_vars
    /\ [][\A t \in EventThreads :
            (~InWait(t) /\ evWaits'[t] # evWaits[t] /\ evWaits'[t] \in {"immediate", "blocked"}) =>
                IF evTriggers > 0
                THEN evWaits'[t] = "immediate" /\ ~InWait(t)'
                ELSE ~evFlag => (evWaits'[t] = "blocked" /\ evPc'[t] = "waiting")]_vars

\* one trigger() has unblocked two threads that were blocked, and a third
\* thread has called wait() afterwards
C27_Witness ==
    /\ evTriggers > 0
    /\ \E t, u, v \in EventThreads :
        /\ t # u /\ u # v /\ t # v
        /\ evPc[t] = "notified" /\ evWaits[t] = "triggered"
        /\ evPc[u] = "notified" /\ evWaits[u] = "triggered"
        /\ evWaits[v] = "immediate"

\* C28: a thread that calls wait() on an untriggered Event does not return
\* from wait() until some other thread has called trigger(), whatever the
\* condition variable does, wakeups without a notification included.
C28_WaitBlocksUntilTriggered ==
    \A t \in EventThreads : evWaits[t] # "returnedUntriggered"

(***************************************************************************)
(* The merge scan                                                          *)
(***************************************************************************)
\* the maps whose emptiness or size the next step of the driver reads: the
\* map of the worker the scan is at (line 145), with it the pending target
\* when the two sizes are compared (line 156), and the map that is returned
\* (line 166)
MapsInspected ==
    IF dpc = "merge_scan" /\ idx <= threadCount
    THEN {idx} \cup (IF ~MapEmpty(voxels[idx]) /\ mergeTarget # 0 THEN {mergeTarget} ELSE {})
    ELSE IF dpc = "merge_check" /\ commandsIssued = 0 /\ mergeTarget # 0
    THEN {mergeTarget}
    ELSE {}

\* the maps named by a MERGE_MAPS command issued and not yet completed
MapsOfPendingMerges == UNION {MapsNamed(c) : c \in InFlight}

\* C29: while it scans the workers in mergeVoxelMaps the driver never reads
\* the emptiness or the size of a map named by a MERGE_MAPS command issued
\* earlier and not yet completed; every map it inspects is untouched in the
\* current pass, or is the pending target that no command issued names.
C29_RaceFreeMergeScan ==
    /\ MapsInspected \cap MapsOfPendingMerges = {}
    /\ MapsInspected \cap passMaps = {}
    /\ (dpc = "merge_scan" /\ mergeTarget # 0) => mergeTarget \notin passMaps

\* the driver compares the sizes of two maps while a worker runs a merge
\* issued earlier in the same pass
C29_Witness ==
    /\ dpc = "merge_scan"
    /\ Cardinality(MapsInspected) = 2
    /\ passMaps # {}
    /\ \E i \in Workers : wpc[i] = "run" /\ wcmd[i].type = "MERGE_MAPS"

(***************************************************************************)
(* Workers and work                                                        *)
(***************************************************************************)
\* the workers whose thread has been started and has not left run()
Running == {i \in Workers : wpc[i] \notin {"unborn", "exited"}}

\* C30: whatever std::thread::hardware_concurrency() returns, 0 included, for
\* a mesh with at least one vertex at least one worker is running when the
\* first command is issued (so that every issued command is eventually
\* received and the first waitForCompletion() eventually returns).
C30_WorkersExistBeforeWork ==
    (vertexCount # 0 /\ dpc \in {"issue_inc", "issue_push"} /\ Len(log) <= 1) => Running # {}

(***************************************************************************)
(* The per-voxel clip                                                      *)
(***************************************************************************)
\* voxelizeVoxel has returned to voxelizeSubTriangle
ClipReturned == clipPc = "insert"

RECURSIVE SumOfAreas(_, _)
SumOfAreas(fragments, k) ==
    IF k > Len(fragments) THEN Real(0) ELSE RAdd(Area(fragments[k]), SumOfAreas(fragments, k + 1))

\* C21: the weight the per-voxel clip returns is the sum of the areas of the
\* fragments that survived, which is the area of the triangle inside the
\* unit cube at the cell: each fragment contributes its own area.
C21_ClipWeight ==
    ClipReturned => clipResult.weight = SumOfAreas(clipResult.fragments, 1)

\* the k-th call of the splitting function is for side (k - 1) \div 3 and
\* axis (k - 1) % 3, at plane p[axis] + side
CutOrder ==
    /\ Len(clipCuts) <= 6
    /\ \A k \in 1..Len(clipCuts) :
        /\ clipCuts[k].hi = (k - 1) \div 3
        /\ clipCuts[k].axis = (k - 1) % 3
        /\ clipCuts[k].plane = ClipPos[clipCuts[k].axis + 1] + clipCuts[k].hi

InClip == clipPc \in {"cut", "fold", "insert"}

\* C23 as stated: at most six cuts in the order side low: axes 0, 1, 2, then
\* side high: axes 0, 1, 2, at plane p[a] + side, with DiscardLo when side =
\* high and DiscardHi when side = low.
C23_AsStated ==
    InClip =>
        /\ CutOrder
        /\ \A k \in 1..Len(clipCuts) :
            clipCuts[k].mode = IF clipCuts[k].hi = 1 THEN "DISCARD_LO" ELSE "DISCARD_HI"

\* C23: at most six cuts in the order side low: axes 0, 1, 2, then side high:
\* axes 0, 1, 2, at plane p[a] + side, with DiscardLo when side = low and
\* DiscardHi when side = high, so that what lies outside the cell is
\* discarded.
C23_ClipOrderAndMode ==
    InClip =>
        /\ CutOrder
        /\ \A k \in 1..Len(clipCuts) :
            clipCuts[k].mode = IF clipCuts[k].hi = 0 THEN "DISCARD_LO" ELSE "DISCARD_HI"

\* all six cuts were made for a cell that is not at the origin, and
\* fragments survived
C23_Witness ==
    /\ ClipReturned
    /\ Len(clipCuts) = 6
    /\ clipResult.fragments # <<>>
    /\ ClipPos # <<0, 0, 0>>

\* C24: if both split buffers are empty but for the sub-triangle placed in
\* the pre-buffer when voxelizeVoxel is called, then on every return, early
\* after any cut or after all six, both buffers of the caller are empty
\* again, so that the assertions before the call hold for every cell;
\* before each swap the pre-buffer has been cleared.
C24_SplitBufferDiscipline ==
    /\ (clipPc \in {"insert", "call", "done"}) => (clipBuffers.a = <<>> /\ clipBuffers.b = <<>>)
    /\ InClip => \A k \in 1..Len(clipCuts) : clipCuts[k].cleared
    /\ (clipPc = "cut") => PostSplitBuffer(clipBuffers) = <<>>

\* the call for the second cell returned early after an odd number of swaps,
\* the two pointers exchanged, after the call for the first cell had
\* returned after all six cuts
C24_Witness ==
    /\ ClipReturned
    /\ clipIn.next = 2
    /\ clipResult.path = "early"
    /\ Len(clipCuts) % 2 = 0
    /\ Len(clipCuts) > 1
    /\ clipBuffers.pre = "b"
    /\ clipOut # <<>>

\* C25: if after any of the six cuts no fragment survives, voxelizeVoxel
\* returns weight 0 at once without making the remaining cuts, and a weight
\* of exactly 0 is never inserted into the map, so that a cell is in the map
\* only if at least one fragment survived all six cuts.
C25_EmptyClipNoVoxel ==
    /\ (clipPc = "cut") => PreSplitBuffer(clipBuffers) # <<>>
    /\ (ClipReturned /\ Len(clipCuts) < 6) =>
        /\ clipResult.path = "early"
        /\ clipResult.weight = Real(0)
    /\ (ClipReturned /\ clipResult.path = "early") => clipResult.fragments = <<>>
    /\ \A k \in 1..Len(clipOut) :
        /\ clipOut[k].weight # Real(0)
        /\ clipOut[k].cuts = 6
        /\ clipOut[k].fragments >= 1

\* one cell was inserted, and the call for the next cell returned early and
\* inserted nothing
C25_Witness ==
    /\ clipPc = "done"
    /\ Len(clipIn.cells) = 2
    /\ Len(clipOut) = 1
    /\ clipResult.path = "early"
    /\ Len(clipCuts) \in 1..5

(***************************************************************************)
(* The subdivider                                                          *)
(***************************************************************************)
\* the product of the three extents of the bounding box is below n
BoxVolumeBelow(t, n) ==
    LET size == BoxSize(t)
    IN  \/ \E c \in 1..3 : size[c] = 0
        \/ /\ size[1] * size[2] < n
           /\ size[1] * size[2] * size[3] < n

\* C22: for every input triangle that is not near-axis-aligned, whatever the
\* size of its bounding box in unsigned voxel coordinates, every triangle of
\* the vector returned has a bounding-box volume, the product of its three
\* whole extents, below 512; every subdivision replaces one triangle by four,
\* so that the vector has 1 + 3 j triangles after j subdivisions.
C22_SubdividerPostcondition ==
    /\ (subPc \in {"loop", "done"}) => Len(subOut) = 1 + 3 * subSteps
    /\ (subPc = "done" /\ ~NearAxisAligned(subIn)) =>
        \A k \in 1..Len(subOut) : BoxVolumeBelow(subOut[k], VolumeLimit)

(***************************************************************************)
(* The output buffer and the exit status                                   *)
(***************************************************************************)
\* the calls of flushBuffer made inside the loop, or after it
FlushesWhere(inLoop) == {k \in 1..Len(flushLog) : flushLog[k].inLoop = inLoop}

\* the range-for has taken every voxel of the map
LoopFinished == mainPc \in {"converted", "returned"} /\ cvNext > weightedVoxels

\* C31: every voxel of the map is handed to the writer once and in the order
\* of the map (never twice, never out of order, and all of them when
\* convert_map_voxelio returns 0); voxelIndex is below VOXEL_BUFFER_32_SIZE
\* whenever a voxel is stored; flushBuffer is called when the buffer has become
\* full, with the whole buffer, and once more after the last voxel, and a good
\* flush leaves voxelIndex 0; after a failed flush convert_map_voxelio has
\* returned 1 and no voxel is stored after those handed over.
C31_OutputBuffering ==
    /\ handed = [i \in 1..Len(handed) |-> i]
    /\ convertReturn = 0 => Len(handed) = weightedVoxels
    /\ mainPc = "loop" => voxelIndex < VOXEL_BUFFER_32_SIZE
    /\ mainPc \in {"loop", "converted", "returned"} =>
        /\ \A k \in FlushesWhere(TRUE) : flushLog[k].size = VOXEL_BUFFER_32_SIZE
        /\ Cardinality(FlushesWhere(TRUE)) = voxelCount \div VOXEL_BUFFER_32_SIZE
        /\ FlushesWhere(FALSE) = IF LoopFinished THEN {Len(flushLog)} ELSE {}
        /\ LoopFinished => voxelCount = weightedVoxels
        /\ mainPc = "loop" => voxelIndex = voxelCount % VOXEL_BUFFER_32_SIZE
        /\ convertReturn = 0 => voxelIndex = 0
        /\ \A k \in 1..Len(flushLog) : ~flushLog[k].ok =>
            /\ k = Len(flushLog)
            /\ mainPc \in {"converted", "returned"}
            /\ convertReturn = 1
            /\ voxelCount = Len(handed)

\* a map of more than two buffers was written: two flushes of a full buffer
\* and the last one, of one voxel
C31_Witness ==
    /\ mainPc = "returned"
    /\ convertReturn = 0
    /\ Len(flushLog) = 3
    /\ flushLog[3].size = 1
    /\ Len(handed) = 2 * VOXEL_BUFFER_32_SIZE + 1

\* C32: main_impl returns 0 when convert_map_voxelio returned 0 and a nonzero
\* value when it returned 1; when one of the checks of the arguments fails
\* (empty input path, no output type, output not opened, resolution or
\* strategy not parsed) it returns 1 and voxelize_obj was not called.
C32_ExitStatus ==
    mainPc = "returned" =>
        /\ convertReturn = 0 => mainReturn = 0
        /\ convertReturn = 1 => mainReturn # 0
        /\ ~ArgsAccepted(mainArgs) => mainReturn = 1 /\ ~voxelized

=============================================================================
